---- MODULE Spec2Model ----
(***************************************************************************)
(* Model of the alarm aggregation core of AlarmNotifications:              *)
(* AlarmServerConnector (alarmserverconnector.cpp/.h), AlarmStatusEntry    *)
(* (alarmstatusentry.cpp), the ingestion path CMSClient::onMessage, the    *)
(* timeouts of AlarmConfiguration and the Beedo play flag.                 *)
(*                                                                         *)
(* Threads: the ActiveMQ listener thread (onMessage), the watcher thread   *)
(* (startWatcher/checkStatusMap) and the flash light thread                *)
(* (operateFlashLight).  notifyStatusChange and checkStatusMap hold        *)
(* _statusmapmutex for their whole body and are one atomic step each;      *)
(* operateFlashLight takes no lock, so each of its reads of shared data    *)
(* is a step of its own.                                                   *)
(***************************************************************************)
EXTENDS Integers, Sequences, FiniteSets, TLC

\* ------------------------------------------------------------------ bounds
\* Last value of the clock std::time(nullptr) in the model (seconds).
MaxTime == 3

\* Largest timeout (seconds) the configuration takes in the model.
MaxTimeout == 2

\* Longest severity string of the exhaustive inputs of checkSeverityString.
MaxSeverityLength == 5

\* ------------------------------------------------------- program constants
\* AlarmServerConnector::noAlarmActive, std::numeric_limits<long int>::min().
\* TLC's integers are 32 bits wide, so the minimum of a 32 bit long is used
\* (the header itself discusses the 32 bit case); all that the code relies on
\* is that the value is below every timestamp, also after adding a timeout.
noAlarmActive == -2147483647

\* Values the storage of _oldestAlarm may hold before its initialiser has
\* run: the sentinel, or a time of the past.
UninitialisedTimes == {noAlarmActive, 0}

\* Positions of the owner before the constructor has returned or thrown.
ConstructionStages ==
    {"unconstructed", "cmsclient", "statusmap", "threads", "body"}

\* Modulus of the size_t arithmetic in severity.length()-4.  The program's
\* size_t is 64 bits wide; the model wraps at 2^30, far above every string
\* length, which is all the comparison in std::string::substr depends on.
SizeTModulus == 1073741824

\* ------------------------------------------------------------------ inputs
\* PV names the alarm server reports on, in the key order of std::map.
PVOrder == <<"pv1", "pv2">>

PVNames == {PVOrder[i] : i \in 1..Len(PVOrder)}

\* Severity strings are sequences of characters.
SevOK == <<"O", "K">>

SevMAJOR == <<"M", "A", "J", "O", "R">>

SevMAJOR_ACK == <<"M", "A", "J", "O", "R", "_", "A", "C", "K">>

SevACK == <<"A", "C", "K">>

Severities == {SevOK, SevMAJOR, SevMAJOR_ACK, SevACK}

SevMINOR == <<"M", "I", "N", "O", "R">>

\* Severities of the reports where a record changes its severity: a second
\* severity of an active alarm next to MAJOR.
SeveritiesIngestion == Severities \cup {SevMINOR}

\* Inputs of checkSeverityString taken one by one: the strings "", "A",
\* "ACK", "X_ACK", "OK", "NOT_OK" and every string of the characters of
\* "_ACK" up to MaxSeverityLength characters.
SeverityInputs ==
    {<<>>, <<"A">>, SevACK, <<"X", "_", "A", "C", "K">>, SevOK,
     <<"N", "O", "T", "_", "O", "K">>}
    \cup UNION {[1..n -> {"_", "A", "C", "K"}] : n \in 0..MaxSeverityLength}

Statuses == {"HIHI_ALARM"}

\* Values a timeout setting takes: 0 (channel disabled) and MaxTimeout.
Timeouts == {0, MaxTimeout}

VARIABLES
    now,                 \* std::time(nullptr)
    desktopVersion,      \* AlarmServerConnector::_desktopVersion
    activateBeedo,       \* AlarmServerConnector::_activateBeedo
    statusmap,           \* AlarmServerConnector::_statusmap
    oldestAlarm,         \* AlarmServerConnector::_oldestAlarm
    runwatcher,          \* AlarmServerConnector::_runwatcher
    flashlighton,        \* AlarmServerConnector::_flashlighton
    laboratoryTimeout,   \* AlarmConfiguration::_laboratorynotificationtimeout
    desktopTimeout,      \* AlarmConfiguration::_desktopnotificationtimeout
    emailTimeout,        \* AlarmConfiguration::_emailnotificationtimeout
    beedoGo,             \* Beedo::_go
    processAlive,        \* FALSE once std::terminate has been called
    wpc,                 \* position of the watcher thread
    flpc,                \* position of the flash light thread
    flOldest,            \* <<_oldestAlarm>> as read by the flash light thread
                         \* in the tick under way, <<>> before that read
    desktopDispatched,   \* per PV: desktop batches holding the present record
    emailDispatched,     \* per PV: e-mail batches holding the present record
    lastReportActive,    \* PVs whose most recent report was not cleared
    severityUpdated,     \* PVs whose present record got a new severity from
                         \* AlarmStatusEntry::update
    lifecycle,           \* position of the owner of the connector:
                         \* constructor, running, destructor
    channelsFail,        \* the collaborators' resources are out of order: the
                         \* serial device cannot be opened, the SMTP server
                         \* cannot be reached
    lastSeverity,        \* per PV: severity of the most recent report if it
                         \* was not cleared, <<>> otherwise
    senderPending,       \* a detached sender thread has not returned yet
    senderDelay,         \* the sends take time: a detached sender thread is
                         \* still running when its tick has ended
    senderBatch,         \* the copy of the batch held by the sender thread
                         \* spawned last, <<>> when no sender is running
    statusmapmutex,      \* _statusmapmutex: "free", or "watcher" while the
                         \* watcher thread holds it across two steps
    ascmutex,            \* DesktopAlarmWidget::_ascmutex: "free", or the
                         \* thread that holds it, "gui" or "observer"
    alarmActive,         \* DesktopAlarmWidget::_alarmActive
    opc,                 \* position of the thread of observeAlarmStatus
    alarmStatusChanged,  \* flips with every emission of the signal
                         \* alarmStatusChanged()
    observedCount        \* value of the last getNumberOfAlarms() call of
                         \* observeAlarmStatus

vars == <<now, desktopVersion, activateBeedo, statusmap, oldestAlarm,
          runwatcher, flashlighton, laboratoryTimeout, desktopTimeout,
          emailTimeout, beedoGo, processAlive, wpc, flpc, flOldest,
          desktopDispatched, emailDispatched, lastReportActive,
          severityUpdated, lifecycle, channelsFail,
          lastSeverity, senderPending, senderDelay,
          senderBatch, statusmapmutex,
          ascmutex, alarmActive, opc, alarmStatusChanged, observedCount>>

\* The members of DesktopAlarmWidget and the position of its observer.
widgetVars == <<ascmutex, alarmActive, opc, alarmStatusChanged, observedCount>>

\* ------------------------------------------------------ AlarmStatusEntry
\* AlarmStatusEntry(pvname, severity, status): trigger time is the time of
\* construction, both notification flags start false.
AlarmStatusEntry(pvname, severity, status, time) ==
    [pvname |-> pvname,
     severity |-> severity,
     status |-> status,
     triggertime |-> time,
     desktopNotificationSent |-> FALSE,
     emailNotificationSent |-> FALSE]

\* Variant: update takes over the trigger time of the new entry as well.
update_TakesTriggerTime(entry, newdata) ==
    IF entry.triggertime < newdata.triggertime
    THEN [entry EXCEPT !.severity = newdata.severity,
                       !.status = newdata.status,
                       !.triggertime = newdata.triggertime]
    ELSE entry

\* Variant: update starts the notifications of the record anew.
update_ResetsFlags(entry, newdata) ==
    IF entry.triggertime < newdata.triggertime
    THEN [entry EXCEPT !.severity = newdata.severity,
                       !.status = newdata.status,
                       !.desktopNotificationSent = FALSE,
                       !.emailNotificationSent = FALSE]
    ELSE entry

\* AlarmStatusEntry::update: severity and status are taken over only if the
\* new entry's trigger time is strictly later.
update(entry, newdata) ==
    IF entry.triggertime < newdata.triggertime
    THEN [entry EXCEPT !.severity = newdata.severity,
                       !.status = newdata.status]
    ELSE entry

\* -------------------------------------------------- checkSeverityString
\* std::string::substr(pos, n): throws std::out_of_range if pos > size(),
\* otherwise the characters pos .. min(pos+n, size()) - 1 (counted from 0).
substr(s, pos, n) ==
    [thrown |-> pos > Len(s),
     value  |-> IF pos > Len(s)
                THEN <<>>
                ELSE SubSeq(s, pos + 1,
                            IF pos + n < Len(s) THEN pos + n ELSE Len(s))]

\* AlarmServerConnector::checkSeverityString: value is TRUE for a cleared
\* severity and FALSE for an active one; thrown when substr throws.  The
\* position severity.length()-4 is computed in size_t.
checkSeverityString(severity) ==
    IF severity = SevOK
    THEN [thrown |-> FALSE, value |-> TRUE]
    ELSE LET tail == substr(severity, (Len(severity) - 4) % SizeTModulus, 4)
         IN  [thrown |-> tail.thrown,
              value  |-> ~tail.thrown /\ tail.value = <<"_", "A", "C", "K">>]

\* ------------------------------------------------------------ the state
size(map) == Cardinality(DOMAIN map)

\* std::map::erase and std::map::insert on the function that models the map.
erase(map, pvname) == [p \in (DOMAIN map) \ {pvname} |-> map[p]]

insert(map, pvname, entry) ==
    [p \in (DOMAIN map) \cup {pvname} |-> IF p = pvname /\ p \notin DOMAIN map
                                          THEN entry ELSE map[p]]

\* AlarmServerConnector::getNumberOfAlarms
getNumberOfAlarms == size(statusmap)

\* Variant of notifyStatusChange that hands a cleared report on a live PV to
\* update instead of erasing the record.
notifyStatusChange_UpdateOnClear(map, oldest, status) ==
    LET cleared == checkSeverityString(status.severity)
        pvname  == status.pvname
    IN  IF cleared.thrown
        THEN [thrown |-> TRUE, statusmap |-> map, oldestAlarm |-> oldest]
        ELSE IF cleared.value /\ pvname \notin DOMAIN map
        THEN [thrown |-> FALSE, statusmap |-> map, oldestAlarm |-> oldest]
        ELSE [thrown |-> FALSE,
              statusmap |-> IF pvname \notin DOMAIN map
                            THEN insert(map, pvname, status)
                            ELSE [map EXCEPT ![pvname] = update(@, status)],
              oldestAlarm |-> IF oldest = noAlarmActive
                              THEN status.triggertime ELSE oldest]

\* Variant of notifyStatusChange that resets _oldestAlarm on every cleared
\* report.
notifyStatusChange_ClearResetsOldest(map, oldest, status) ==
    LET cleared == checkSeverityString(status.severity)
        pvname  == status.pvname
    IN  IF cleared.thrown
        THEN [thrown |-> TRUE, statusmap |-> map, oldestAlarm |-> oldest]
        ELSE IF cleared.value
        THEN [thrown |-> FALSE,
              statusmap |-> IF pvname \in DOMAIN map
                            THEN erase(map, pvname) ELSE map,
              oldestAlarm |-> noAlarmActive]
        ELSE [thrown |-> FALSE,
              statusmap |-> IF pvname \notin DOMAIN map
                            THEN insert(map, pvname, status)
                            ELSE [map EXCEPT ![pvname] = update(@, status)],
              oldestAlarm |-> IF oldest = noAlarmActive
                              THEN status.triggertime ELSE oldest]

\* Variant: _oldestAlarm is recomputed as the earliest trigger time of the
\* records that remain after the change.
notifyStatusChange_TrueMinimum(map, oldest, status) ==
    LET cleared == checkSeverityString(status.severity)
        pvname  == status.pvname
        newmap  == IF cleared.value
                   THEN IF pvname \in DOMAIN map
                        THEN erase(map, pvname) ELSE map
                   ELSE IF pvname \notin DOMAIN map
                        THEN insert(map, pvname, status)
                        ELSE [map EXCEPT ![pvname] = update(@, status)]
    IN  IF cleared.thrown
        THEN [thrown |-> TRUE, statusmap |-> map, oldestAlarm |-> oldest]
        ELSE [thrown |-> FALSE,
              statusmap |-> newmap,
              oldestAlarm |->
                 IF DOMAIN newmap = {}
                 THEN oldest
                 ELSE CHOOSE t \in {newmap[p].triggertime : p \in DOMAIN newmap} :
                         \A p \in DOMAIN newmap : t <= newmap[p].triggertime]

\* Variant: _oldestAlarm follows the trigger time of every inserted record.
notifyStatusChange_OldestIsLatest(map, oldest, status) ==
    LET cleared == checkSeverityString(status.severity)
        pvname  == status.pvname
    IN  IF cleared.thrown
        THEN [thrown |-> TRUE, statusmap |-> map, oldestAlarm |-> oldest]
        ELSE IF cleared.value
        THEN [thrown |-> FALSE,
              statusmap |-> IF pvname \in DOMAIN map
                            THEN erase(map, pvname) ELSE map,
              oldestAlarm |-> oldest]
        ELSE [thrown |-> FALSE,
              statusmap |-> IF pvname \notin DOMAIN map
                            THEN insert(map, pvname, status)
                            ELSE [map EXCEPT ![pvname] = update(@, status)],
              oldestAlarm |-> IF pvname \notin DOMAIN map
                              THEN status.triggertime ELSE oldest]

\* AlarmServerConnector::notifyStatusChange on map and oldest: the new map
\* and oldest time, or thrown when checkSeverityString throws (the lock guard
\* is released by the unwinding, map and oldest are as before).
notifyStatusChange(map, oldest, status) ==
    LET cleared == checkSeverityString(status.severity)
        pvname  == status.pvname
    IN  IF cleared.thrown
        THEN [thrown |-> TRUE, statusmap |-> map, oldestAlarm |-> oldest]
        ELSE IF cleared.value
        THEN [thrown |-> FALSE,
              statusmap |-> IF pvname \in DOMAIN map
                            THEN erase(map, pvname) ELSE map,
              oldestAlarm |-> oldest]
        ELSE [thrown |-> FALSE,
              statusmap |-> IF pvname \notin DOMAIN map
                            THEN insert(map, pvname, status)
                            ELSE [map EXCEPT ![pvname] = update(@, status)],
              oldestAlarm |-> IF oldest = noAlarmActive
                              THEN status.triggertime ELSE oldest]

\* The alarms a prepare function copies into alarmsToUse, in map order.
AlarmsInOrder(map, selected) ==
    LET Chosen(p) == p \in selected
        names == SelectSeq(PVOrder, Chosen)
    IN  [i \in 1..Len(names) |-> map[names[i]]]

\* Variant of prepareDesktopNotification that forgets to set the flag of the
\* alarms it selects.
prepareDesktopNotification_NoMark(map, timeout, time) ==
    IF timeout = 0
    THEN [statusmap |-> map, alarmsToUse |-> <<>>]
    ELSE LET selected == {p \in DOMAIN map :
                            /\ map[p].triggertime + timeout <= time
                            /\ ~map[p].desktopNotificationSent}
         IN  [statusmap |-> map,
              alarmsToUse |-> AlarmsInOrder(map, selected)]

\* Variant of prepareDesktopNotification that compares the age with < in
\* place of <=.
prepareDesktopNotification_Strict(map, timeout, time) ==
    IF timeout = 0
    THEN [statusmap |-> map, alarmsToUse |-> <<>>]
    ELSE LET selected == {p \in DOMAIN map :
                            /\ map[p].triggertime + timeout < time
                            /\ ~map[p].desktopNotificationSent}
             marked == [p \in DOMAIN map |->
                          IF p \in selected
                          THEN [map[p] EXCEPT !.desktopNotificationSent = TRUE]
                          ELSE map[p]]
         IN  [statusmap |-> marked,
              alarmsToUse |-> AlarmsInOrder(marked, selected)]

\* Variant of prepareDesktopNotification without the test for a timeout of 0.
prepareDesktopNotification_NoZeroTest(map, timeout, time) ==
    LET selected == {p \in DOMAIN map :
                       /\ map[p].triggertime + timeout <= time
                       /\ ~map[p].desktopNotificationSent}
        marked == [p \in DOMAIN map |->
                     IF p \in selected
                     THEN [map[p] EXCEPT !.desktopNotificationSent = TRUE]
                     ELSE map[p]]
    IN  [statusmap |-> marked,
         alarmsToUse |-> AlarmsInOrder(marked, selected)]

\* AlarmServerConnector::prepareDesktopNotification: the map with the flags
\* set and the vector handed to the detached sendDesktopNotification thread
\* (empty: no thread is spawned).
prepareDesktopNotification(map, timeout, time) ==
    IF timeout = 0
    THEN [statusmap |-> map, alarmsToUse |-> <<>>]
    ELSE LET selected == {p \in DOMAIN map :
                            /\ map[p].triggertime + timeout <= time
                            /\ ~map[p].desktopNotificationSent}
             marked == [p \in DOMAIN map |->
                          IF p \in selected
                          THEN [map[p] EXCEPT !.desktopNotificationSent = TRUE]
                          ELSE map[p]]
         IN  [statusmap |-> marked,
              alarmsToUse |-> AlarmsInOrder(marked, selected)]

\* Variant of prepareEMailNotification with the per-record time test that is
\* commented out in the source.
prepareEMailNotification_PerRecord(map, timeout, desktop) ==
    IF desktop \/ timeout = 0
    THEN [statusmap |-> map, alarmsToUse |-> <<>>]
    ELSE LET selected == {p \in DOMAIN map :
                            /\ map[p].triggertime + timeout <= now
                            /\ ~map[p].emailNotificationSent}
             marked == [p \in DOMAIN map |->
                          IF p \in selected
                          THEN [map[p] EXCEPT !.emailNotificationSent = TRUE]
                          ELSE map[p]]
         IN  [statusmap |-> marked,
              alarmsToUse |-> AlarmsInOrder(marked, selected)]

\* Variant of prepareEMailNotification without the test for the desktop
\* version.
prepareEMailNotification_NoDesktopTest(map, timeout, desktop) ==
    IF timeout = 0
    THEN [statusmap |-> map, alarmsToUse |-> <<>>]
    ELSE LET selected == {p \in DOMAIN map : ~map[p].emailNotificationSent}
             marked == [p \in DOMAIN map |->
                          IF p \in selected
                          THEN [map[p] EXCEPT !.emailNotificationSent = TRUE]
                          ELSE map[p]]
         IN  [statusmap |-> marked,
              alarmsToUse |-> AlarmsInOrder(marked, selected)]

\* AlarmServerConnector::prepareEMailNotification: no per-record time test.
prepareEMailNotification(map, timeout, desktop) ==
    IF desktop \/ timeout = 0
    THEN [statusmap |-> map, alarmsToUse |-> <<>>]
    ELSE LET selected == {p \in DOMAIN map : ~map[p].emailNotificationSent}
             marked == [p \in DOMAIN map |->
                          IF p \in selected
                          THEN [map[p] EXCEPT !.emailNotificationSent = TRUE]
                          ELSE map[p]]
         IN  [statusmap |-> marked,
              alarmsToUse |-> AlarmsInOrder(marked, selected)]

\* Variant of checkStatusMap whose set-level tests fire only in the second
\* in which the oldest alarm reaches the timeout (= in place of <=).
checkStatusMap_EdgeTriggered(map, oldest, go, time) ==
    LET reset   == size(map) = 0 /\ oldest # noAlarmActive
        oldest1 == IF reset THEN noAlarmActive ELSE oldest
        go1     == IF reset /\ activateBeedo THEN FALSE ELSE go
        desktopDue == size(map) # 0 /\ oldest1 + desktopTimeout = time
        desk    == IF desktopDue
                   THEN prepareDesktopNotification(map, desktopTimeout, time)
                   ELSE [statusmap |-> map, alarmsToUse |-> <<>>]
        go2     == IF desktopDue /\ activateBeedo THEN TRUE ELSE go1
        emailDue == size(desk.statusmap) # 0 /\ oldest1 + emailTimeout = time
        mail    == IF emailDue
                   THEN prepareEMailNotification(desk.statusmap, emailTimeout,
                                                 desktopVersion)
                   ELSE [statusmap |-> desk.statusmap, alarmsToUse |-> <<>>]
    IN  [statusmap |-> mail.statusmap,
         oldestAlarm |-> oldest1,
         beedoGo |-> go2,
         desktopBatch |-> desk.alarmsToUse,
         emailBatch |-> mail.alarmsToUse]

\* Variant of checkStatusMap that works with timeouts of 0, the values the
\* configuration has when a service that starts with all channels disabled
\* is built, in place of the values the configuration has at the tick.
checkStatusMap_StartupTimeouts(map, oldest, go, time) ==
    LET reset   == size(map) = 0 /\ oldest # noAlarmActive
        oldest1 == IF reset THEN noAlarmActive ELSE oldest
        go1     == IF reset /\ activateBeedo THEN FALSE ELSE go
        desktopDue == size(map) # 0 /\ oldest1 + 0 <= time
        desk    == IF desktopDue
                   THEN prepareDesktopNotification(map, 0, time)
                   ELSE [statusmap |-> map, alarmsToUse |-> <<>>]
        go2     == IF desktopDue /\ activateBeedo THEN TRUE ELSE go1
        emailDue == size(desk.statusmap) # 0 /\ oldest1 + 0 <= time
        mail    == IF emailDue
                   THEN prepareEMailNotification(desk.statusmap, 0,
                                                 desktopVersion)
                   ELSE [statusmap |-> desk.statusmap, alarmsToUse |-> <<>>]
    IN  [statusmap |-> mail.statusmap,
         oldestAlarm |-> oldest1,
         beedoGo |-> go2,
         desktopBatch |-> desk.alarmsToUse,
         emailBatch |-> mail.alarmsToUse]

\* Variant of checkStatusMap without the reset of _oldestAlarm and the stop
\* of Beedo on an empty map.
checkStatusMap_NoReset(map, oldest, go, time) ==
    LET desktopDue == size(map) # 0 /\ oldest + desktopTimeout <= time
        desk    == IF desktopDue
                   THEN prepareDesktopNotification(map, desktopTimeout, time)
                   ELSE [statusmap |-> map, alarmsToUse |-> <<>>]
        go2     == IF desktopDue /\ activateBeedo THEN TRUE ELSE go
        emailDue == size(desk.statusmap) # 0 /\ oldest + emailTimeout <= time
        mail    == IF emailDue
                   THEN prepareEMailNotification(desk.statusmap, emailTimeout,
                                                 desktopVersion)
                   ELSE [statusmap |-> desk.statusmap, alarmsToUse |-> <<>>]
    IN  [statusmap |-> mail.statusmap,
         oldestAlarm |-> oldest,
         beedoGo |-> go2,
         desktopBatch |-> desk.alarmsToUse,
         emailBatch |-> mail.alarmsToUse]

\* AlarmServerConnector::checkStatusMap under the lock, at clock value time:
\* the new map, oldest time and Beedo flag, and the two batches spawned.
checkStatusMap(map, oldest, go, time) ==
    LET reset   == size(map) = 0 /\ oldest # noAlarmActive
        oldest1 == IF reset THEN noAlarmActive ELSE oldest
        go1     == IF reset /\ activateBeedo THEN FALSE ELSE go
        desktopDue == size(map) # 0 /\ oldest1 + desktopTimeout <= time
        desk    == IF desktopDue
                   THEN prepareDesktopNotification(map, desktopTimeout, time)
                   ELSE [statusmap |-> map, alarmsToUse |-> <<>>]
        go2     == IF desktopDue /\ activateBeedo THEN TRUE ELSE go1
        emailDue == size(desk.statusmap) # 0 /\ oldest1 + emailTimeout <= time
        mail    == IF emailDue
                   THEN prepareEMailNotification(desk.statusmap, emailTimeout,
                                                 desktopVersion)
                   ELSE [statusmap |-> desk.statusmap, alarmsToUse |-> <<>>]
    IN  [statusmap |-> mail.statusmap,
         oldestAlarm |-> oldest1,
         beedoGo |-> go2,
         desktopBatch |-> desk.alarmsToUse,
         emailBatch |-> mail.alarmsToUse]

\* PV names of the alarms in a batch.
BatchNames(batch) == {batch[i].pvname : i \in 1..Len(batch)}

\* ----------------------------------------------------------- collaborators
\* ExceptionHandler(e, location, quit): logs, and calls exit(1) when quit.
ExceptionHandler(quit) == [exited |-> quit]

\* FlashLight::switchInternal: openSerialInterface throws std::runtime_error
\* when the device node cannot be opened.
switchInternal(deviceFails) == [thrown |-> deviceFails]

\* Variant of FlashLight::switchOn without the try block.
switchOn_NoCatch(deviceFails) ==
    [thrown |-> switchInternal(deviceFails).thrown, exited |-> FALSE]

\* FlashLight::switchOn: every exception of switchInternal is caught and
\* handed to ExceptionHandler with quit left at its default, false.
switchOn(deviceFails) ==
    [thrown |-> FALSE,
     exited |-> switchInternal(deviceFails).thrown
                /\ ExceptionHandler(FALSE).exited]

\* FlashLight::switchOff: as switchOn.
switchOff(deviceFails) ==
    [thrown |-> FALSE,
     exited |-> switchInternal(deviceFails).thrown
                /\ ExceptionHandler(FALSE).exited]

\* EMailSender::sendAlarmNotification_internal throws std::runtime_error when
\* the connection to the SMTP server or the sending fails.
sendAlarmNotification_internal(serverFails) == [thrown |-> serverFails]

\* EMailSender::sendAlarmNotification: every exception is caught and written
\* to std::cerr.
sendAlarmNotification(serverFails) ==
    [thrown |-> FALSE,
     exited |-> sendAlarmNotification_internal(serverFails).thrown /\ FALSE]

\* AlarmServerConnector::sendDesktopNotification: notify_notification_show
\* reports a failure through its GError argument (system() through its
\* return value), which the caller does not look at.
sendDesktopNotification(notifyFails) == [thrown |-> FALSE, exited |-> FALSE]

\* An exception that leaves a noexcept function or the function of a thread
\* ends the process through std::terminate, exit(1) ends it as well.
EndsProcess(outcome) == outcome.thrown \/ outcome.exited

\* ------------------------------------------------------------- constructor
\* Variant of the constructor that accepts every combination of its flags.
Constructor_NoTest(desktop, beedo) == [thrown |-> FALSE]

\* AlarmServerConnector::AlarmServerConnector(desktopVersion, activateBeedo):
\* throws std::logic_error if !_desktopVersion && _activateBeedo.
Constructor(desktop, beedo) == [thrown |-> ~desktop /\ beedo]

\* The connector after its constructor has returned without throwing: the
\* mode flags are the constructor's arguments (activateBeedo without
\* desktopVersion throws), the map is empty, both threads have been started.
InitConnector ==
    /\ now = 0
    /\ desktopVersion \in BOOLEAN
    /\ activateBeedo \in BOOLEAN
    /\ ~Constructor(desktopVersion, activateBeedo).thrown
    /\ statusmap = [p \in {} |-> 0]
    /\ oldestAlarm = noAlarmActive
    /\ runwatcher = TRUE
    /\ flashlighton = FALSE
    /\ laboratoryTimeout \in Timeouts
    /\ desktopTimeout \in Timeouts
    /\ emailTimeout \in Timeouts
    /\ beedoGo = FALSE
    /\ processAlive = TRUE
    /\ wpc = "loop"
    /\ flpc = "entry"
    /\ flOldest = <<>>
    /\ desktopDispatched = [p \in PVNames |-> 0]
    /\ emailDispatched = [p \in PVNames |-> 0]
    /\ lastReportActive = {}
    /\ severityUpdated = {}
    /\ lifecycle = "running"
    /\ lastSeverity = [p \in PVNames |-> <<>>]
    /\ senderPending = FALSE
    /\ senderBatch = <<>>
    /\ statusmapmutex = "free"
    /\ ascmutex = "free"
    /\ alarmActive = FALSE
    /\ opc = "unstarted"
    /\ alarmStatusChanged = FALSE
    /\ observedCount = 0

\* State after construction, with the collaborators' resources in order and
\* sends that take no time.
Init ==
    /\ InitConnector
    /\ channelsFail = FALSE
    /\ senderDelay = FALSE

\* Variant of the report with batches that refer to the records of the map:
\* the record a report erases disappears from the batch of a running sender.
OnMessage_BatchByReference(pvname, severity, status) ==
    /\ processAlive
    /\ lifecycle \in {"statusmap", "threads", "body",
                      "running", "joinWatcher", "joinFlashLight"}
    /\ statusmapmutex = "free"
    /\ LET ase == AlarmStatusEntry(pvname, severity, status, now)
           res == notifyStatusChange(statusmap, oldestAlarm, ase)
           inserted == pvname \notin DOMAIN statusmap
                       /\ pvname \in DOMAIN res.statusmap
       IN  /\ statusmap' = res.statusmap
           /\ oldestAlarm' = res.oldestAlarm
           /\ processAlive' = ~res.thrown
           /\ desktopDispatched' =
                 IF inserted THEN [desktopDispatched EXCEPT ![pvname] = 0]
                 ELSE desktopDispatched
           /\ emailDispatched' =
                 IF inserted THEN [emailDispatched EXCEPT ![pvname] = 0]
                 ELSE emailDispatched
           /\ severityUpdated' =
                 IF inserted \/ pvname \notin DOMAIN res.statusmap
                 THEN severityUpdated \ {pvname}
                 ELSE IF res.statusmap[pvname].severity
                           # statusmap[pvname].severity
                 THEN severityUpdated \cup {pvname}
                 ELSE severityUpdated
    /\ lastReportActive' =
          IF severity = SevOK
             \/ (Len(severity) >= 4
                 /\ SubSeq(severity, Len(severity) - 3, Len(severity))
                      = <<"_", "A", "C", "K">>)
          THEN lastReportActive \ {pvname}
          ELSE lastReportActive \cup {pvname}
    /\ senderBatch' =
          LET Remains(r) == r.pvname \in DOMAIN statusmap'
          IN  SelectSeq(senderBatch, Remains)
    /\ lastSeverity' =
          [lastSeverity EXCEPT
             ![pvname] = IF pvname \in lastReportActive'
                         THEN severity ELSE <<>>]
    /\ UNCHANGED <<now, desktopVersion, activateBeedo, runwatcher,
                   flashlighton, laboratoryTimeout, desktopTimeout,
                   emailTimeout, beedoGo, wpc, flpc, flOldest,
                   lifecycle, channelsFail, senderPending, senderDelay,
                   statusmapmutex>>
    /\ UNCHANGED widgetVars

\* ---------------------------------------------------------------- actions
\* CMSClient::onMessage for a STATE message: builds the AlarmStatusEntry at
\* the current time and calls notifyStatusChange.  onMessage is noexcept, so
\* an exception leaving notifyStatusChange ends the process (std::terminate).
OnMessage(pvname, severity, status) ==
    /\ processAlive
    /\ lifecycle \in {"statusmap", "threads", "body",
                      "running", "joinWatcher", "joinFlashLight"}
    /\ statusmapmutex = "free"
    /\ LET ase == AlarmStatusEntry(pvname, severity, status, now)
           res == notifyStatusChange(statusmap, oldestAlarm, ase)
           inserted == pvname \notin DOMAIN statusmap
                       /\ pvname \in DOMAIN res.statusmap
       IN  /\ statusmap' = res.statusmap
           /\ oldestAlarm' = res.oldestAlarm
           /\ processAlive' = ~res.thrown
           /\ desktopDispatched' =
                 IF inserted THEN [desktopDispatched EXCEPT ![pvname] = 0]
                 ELSE desktopDispatched
           /\ emailDispatched' =
                 IF inserted THEN [emailDispatched EXCEPT ![pvname] = 0]
                 ELSE emailDispatched
           /\ severityUpdated' =
                 IF inserted \/ pvname \notin DOMAIN res.statusmap
                 THEN severityUpdated \ {pvname}
                 ELSE IF res.statusmap[pvname].severity
                           # statusmap[pvname].severity
                 THEN severityUpdated \cup {pvname}
                 ELSE severityUpdated
    /\ lastReportActive' =
          IF severity = SevOK
             \/ (Len(severity) >= 4
                 /\ SubSeq(severity, Len(severity) - 3, Len(severity))
                      = <<"_", "A", "C", "K">>)
          THEN lastReportActive \ {pvname}
          ELSE lastReportActive \cup {pvname}
    /\ lastSeverity' =
          [lastSeverity EXCEPT
             ![pvname] = IF pvname \in lastReportActive'
                         THEN severity ELSE <<>>]
    /\ UNCHANGED <<now, desktopVersion, activateBeedo, runwatcher,
                   flashlighton, laboratoryTimeout, desktopTimeout,
                   emailTimeout, beedoGo, wpc, flpc, flOldest,
                   lifecycle, channelsFail, senderPending, senderDelay,
                   senderBatch, statusmapmutex>>
    /\ UNCHANGED widgetVars

\* Variant of the loop of startWatcher that tests _runwatcher only after the
\* sleep: it sleeps once more whatever the flag says.
WatcherSleep_SleepsFirst ==
    /\ processAlive
    /\ wpc = "loop"
    /\ wpc' = "slept"
    /\ UNCHANGED <<now, desktopVersion, activateBeedo, statusmap, oldestAlarm,
                   runwatcher, flashlighton, laboratoryTimeout, desktopTimeout,
                   emailTimeout, beedoGo, processAlive, flpc, flOldest,
                   desktopDispatched, emailDispatched, lastReportActive,
                   severityUpdated, lifecycle, channelsFail,
                   lastSeverity, senderPending, senderDelay,
                   senderBatch, statusmapmutex>>
    /\ UNCHANGED widgetVars

\* Variant of the loop of startWatcher that waits for the sender threads of
\* the last tick before it goes on.
WatcherSleep_WaitsForSender ==
    /\ processAlive
    /\ wpc = "loop"
    /\ ~senderPending
    /\ wpc' = IF runwatcher THEN "slept" ELSE "returned"
    /\ UNCHANGED <<now, desktopVersion, activateBeedo, statusmap, oldestAlarm,
                   runwatcher, flashlighton, laboratoryTimeout, desktopTimeout,
                   emailTimeout, beedoGo, processAlive, flpc, flOldest,
                   desktopDispatched, emailDispatched, lastReportActive,
                   severityUpdated, lifecycle, channelsFail,
                   lastSeverity, senderPending, senderDelay,
                   senderBatch, statusmapmutex>>
    /\ UNCHANGED widgetVars

\* AlarmServerConnector::startWatcher: loop test and sleep(1).
WatcherSleep ==
    /\ processAlive
    /\ wpc = "loop"
    /\ wpc' = IF runwatcher THEN "slept" ELSE "returned"
    /\ UNCHANGED <<now, desktopVersion, activateBeedo, statusmap, oldestAlarm,
                   runwatcher, flashlighton, laboratoryTimeout, desktopTimeout,
                   emailTimeout, beedoGo, processAlive, flpc, flOldest,
                   desktopDispatched, emailDispatched, lastReportActive,
                   severityUpdated, lifecycle, channelsFail,
                   lastSeverity, senderPending, senderDelay,
                   senderBatch, statusmapmutex>>
    /\ UNCHANGED widgetVars

\* checkStatusMap, first statement: the lock guard on _statusmapmutex, taken
\* in a step of its own (the watcher thread then holds the mutex while the
\* other threads run).
WatcherLock ==
    /\ processAlive
    /\ wpc = "slept"
    /\ statusmapmutex = "free"
    /\ wpc' = "locked"
    /\ statusmapmutex' = "watcher"
    /\ UNCHANGED <<now, desktopVersion, activateBeedo, statusmap, oldestAlarm,
                   runwatcher, flashlighton, laboratoryTimeout, desktopTimeout,
                   emailTimeout, beedoGo, processAlive, flpc, flOldest,
                   desktopDispatched, emailDispatched, lastReportActive,
                   severityUpdated, lifecycle, channelsFail,
                   lastSeverity, senderPending, senderDelay, senderBatch>>
    /\ UNCHANGED widgetVars

\* Variant of the tick that keeps _statusmapmutex until the sends it has
\* started have returned.
WatcherCheck_SendsUnderLock ==
    /\ processAlive
    /\ \/ wpc = "slept" /\ statusmapmutex = "free"
       \/ wpc = "locked"
    /\ LET res == checkStatusMap(statusmap, oldestAlarm, beedoGo, now)
       IN  /\ statusmap' = res.statusmap
           /\ oldestAlarm' = res.oldestAlarm
           /\ beedoGo' = res.beedoGo
           /\ desktopDispatched' =
                 [p \in PVNames |->
                    IF p \in BatchNames(res.desktopBatch)
                    THEN desktopDispatched[p] + 1 ELSE desktopDispatched[p]]
           /\ emailDispatched' =
                 [p \in PVNames |->
                    IF p \in BatchNames(res.emailBatch)
                    THEN emailDispatched[p] + 1 ELSE emailDispatched[p]]
           /\ processAlive' =
                 ~ \/ /\ res.desktopBatch # <<>>
                      /\ EndsProcess(sendDesktopNotification(channelsFail))
                   \/ /\ res.emailBatch # <<>>
                      /\ EndsProcess(sendAlarmNotification(channelsFail))
           /\ senderPending' =
                 \/ senderPending
                 \/ /\ senderDelay
                    /\ (res.desktopBatch # <<>> \/ res.emailBatch # <<>>)
           /\ senderBatch' =
                 IF ~senderDelay THEN senderBatch
                 ELSE IF res.emailBatch # <<>> THEN res.emailBatch
                 ELSE IF res.desktopBatch # <<>> THEN res.desktopBatch
                 ELSE senderBatch
    /\ statusmapmutex' = IF senderPending' THEN "watcher" ELSE "free"
    /\ wpc' = "loop"
    /\ UNCHANGED <<now, desktopVersion, activateBeedo, runwatcher,
                   flashlighton, laboratoryTimeout, desktopTimeout,
                   emailTimeout, flpc, flOldest,
                   lastReportActive,
                   severityUpdated, lifecycle, channelsFail,
                   lastSeverity, senderDelay>>
    /\ UNCHANGED widgetVars

\* startWatcher: the call of checkStatusMap after the sleep (one evaluator
\* tick), from the lock guard, or after it when the guard was taken in a
\* step of its own, to its release at the return; the batches go to detached threads that run sendDesktopNotification
\* and sendEMailNotification, which touch no state of the connector.  The
\* tick does not wait for them: with senderDelay they are still running when
\* it ends, otherwise they have returned before any thread looks again.
WatcherCheck ==
    /\ processAlive
    /\ \/ wpc = "slept" /\ statusmapmutex = "free"
       \/ wpc = "locked"
    /\ LET res == checkStatusMap(statusmap, oldestAlarm, beedoGo, now)
       IN  /\ statusmap' = res.statusmap
           /\ oldestAlarm' = res.oldestAlarm
           /\ beedoGo' = res.beedoGo
           /\ desktopDispatched' =
                 [p \in PVNames |->
                    IF p \in BatchNames(res.desktopBatch)
                    THEN desktopDispatched[p] + 1 ELSE desktopDispatched[p]]
           /\ emailDispatched' =
                 [p \in PVNames |->
                    IF p \in BatchNames(res.emailBatch)
                    THEN emailDispatched[p] + 1 ELSE emailDispatched[p]]
           /\ processAlive' =
                 ~ \/ /\ res.desktopBatch # <<>>
                      /\ EndsProcess(sendDesktopNotification(channelsFail))
                   \/ /\ res.emailBatch # <<>>
                      /\ EndsProcess(sendAlarmNotification(channelsFail))
           /\ senderPending' =
                 \/ senderPending
                 \/ /\ senderDelay
                    /\ (res.desktopBatch # <<>> \/ res.emailBatch # <<>>)
           /\ senderBatch' =
                 IF ~senderDelay THEN senderBatch
                 ELSE IF res.emailBatch # <<>> THEN res.emailBatch
                 ELSE IF res.desktopBatch # <<>> THEN res.desktopBatch
                 ELSE senderBatch
    /\ statusmapmutex' = "free"
    /\ wpc' = "loop"
    /\ UNCHANGED <<now, desktopVersion, activateBeedo, runwatcher,
                   flashlighton, laboratoryTimeout, desktopTimeout,
                   emailTimeout, flpc, flOldest,
                   lastReportActive,
                   severityUpdated, lifecycle, channelsFail,
                   lastSeverity, senderDelay>>
    /\ UNCHANGED widgetVars

\* AlarmServerConnector::operateFlashLight, entry: the desktop version
\* returns at once.
FlashLightEntry ==
    /\ processAlive
    /\ flpc = "entry"
    /\ flpc' = IF desktopVersion THEN "returned" ELSE "loop"
    /\ UNCHANGED <<now, desktopVersion, activateBeedo, statusmap, oldestAlarm,
                   runwatcher, flashlighton, laboratoryTimeout, desktopTimeout,
                   emailTimeout, beedoGo, processAlive, wpc, flOldest,
                   desktopDispatched, emailDispatched, lastReportActive,
                   severityUpdated, lifecycle, channelsFail,
                   lastSeverity, senderPending, senderDelay,
                   senderBatch, statusmapmutex>>
    /\ UNCHANGED widgetVars

\* operateFlashLight: loop test and sleep(1).
FlashLightSleep ==
    /\ processAlive
    /\ flpc = "loop"
    /\ flpc' = IF runwatcher THEN "slept" ELSE "returned"
    /\ UNCHANGED <<now, desktopVersion, activateBeedo, statusmap, oldestAlarm,
                   runwatcher, flashlighton, laboratoryTimeout, desktopTimeout,
                   emailTimeout, beedoGo, processAlive, wpc, flOldest,
                   desktopDispatched, emailDispatched, lastReportActive,
                   severityUpdated, lifecycle, channelsFail,
                   lastSeverity, senderPending, senderDelay,
                   senderBatch, statusmapmutex>>
    /\ UNCHANGED widgetVars

\* Variant of the first condition of operateFlashLight without the test of
\* _flashlighton.
FlashLightReadSize_NoOnTest ==
    /\ processAlive
    /\ flpc = "slept"
    /\ flpc' = IF size(statusmap) # 0 THEN "readOldest" ELSE "checkOff"
    /\ UNCHANGED <<now, desktopVersion, activateBeedo, statusmap, oldestAlarm,
                   runwatcher, flashlighton, laboratoryTimeout, desktopTimeout,
                   emailTimeout, beedoGo, processAlive, wpc, flOldest,
                   desktopDispatched, emailDispatched, lastReportActive,
                   severityUpdated, lifecycle, channelsFail,
                   lastSeverity, senderPending, senderDelay,
                   senderBatch, statusmapmutex>>
    /\ UNCHANGED widgetVars

\* operateFlashLight, first condition: !_flashlighton && _statusmap.size() != 0
\* (read without the lock).
FlashLightReadSize ==
    /\ processAlive
    /\ flpc = "slept"
    /\ flpc' = IF ~flashlighton /\ size(statusmap) # 0
               THEN "readOldest" ELSE "checkOff"
    /\ UNCHANGED <<now, desktopVersion, activateBeedo, statusmap, oldestAlarm,
                   runwatcher, flashlighton, laboratoryTimeout, desktopTimeout,
                   emailTimeout, beedoGo, processAlive, wpc, flOldest,
                   desktopDispatched, emailDispatched, lastReportActive,
                   severityUpdated, lifecycle, channelsFail,
                   lastSeverity, senderPending, senderDelay,
                   senderBatch, statusmapmutex>>
    /\ UNCHANGED widgetVars

\* operateFlashLight, first condition, third operand:
\* _oldestAlarm + getLaboratoryNotificationTimeout() <= std::time(nullptr)
\* (read without the lock, after the size).
FlashLightReadOldest ==
    /\ processAlive
    /\ flpc = "readOldest"
    /\ IF oldestAlarm + laboratoryTimeout <= now
       THEN flpc' = "switchOn"
       ELSE flpc' = "checkOff"
    /\ flOldest' = <<oldestAlarm>>
    /\ UNCHANGED <<now, desktopVersion, activateBeedo, statusmap, oldestAlarm,
                   runwatcher, flashlighton, laboratoryTimeout, desktopTimeout,
                   emailTimeout, beedoGo, processAlive, wpc,
                   desktopDispatched, emailDispatched, lastReportActive,
                   severityUpdated, lifecycle, channelsFail,
                   lastSeverity, senderPending, senderDelay,
                   senderBatch, statusmapmutex>>
    /\ UNCHANGED widgetVars

\* Variant of switchFlashLightOn without the test for a timeout of 0.
SwitchFlashLightOn_NoZeroTest ==
    /\ processAlive
    /\ flpc = "switchOn"
    /\ flashlighton' = TRUE
    /\ processAlive' = ~EndsProcess(switchOn(channelsFail))
    /\ flpc' = "checkOff"
    /\ UNCHANGED <<now, desktopVersion, activateBeedo, statusmap, oldestAlarm,
                   runwatcher, laboratoryTimeout, desktopTimeout,
                   emailTimeout, beedoGo, wpc, flOldest,
                   desktopDispatched, emailDispatched, lastReportActive,
                   severityUpdated, lifecycle, channelsFail,
                   lastSeverity, senderPending, senderDelay,
                   senderBatch, statusmapmutex>>
    /\ UNCHANGED widgetVars

\* AlarmServerConnector::switchFlashLightOn: returns when the timeout is 0,
\* else sets _flashlighton and calls FlashLight::switchOn.
SwitchFlashLightOn ==
    /\ processAlive
    /\ flpc = "switchOn"
    /\ flashlighton' = IF laboratoryTimeout = 0 THEN flashlighton ELSE TRUE
    /\ processAlive' = IF laboratoryTimeout = 0 THEN processAlive
                       ELSE ~EndsProcess(switchOn(channelsFail))
    /\ flpc' = "checkOff"
    /\ UNCHANGED <<now, desktopVersion, activateBeedo, statusmap, oldestAlarm,
                   runwatcher, laboratoryTimeout, desktopTimeout,
                   emailTimeout, beedoGo, wpc, flOldest,
                   desktopDispatched, emailDispatched, lastReportActive,
                   severityUpdated, lifecycle, channelsFail,
                   lastSeverity, senderPending, senderDelay,
                   senderBatch, statusmapmutex>>
    /\ UNCHANGED widgetVars

\* Variant of the second condition of operateFlashLight without the test of
\* the size.
FlashLightCheckOff_NoSizeTest ==
    /\ processAlive
    /\ flpc = "checkOff"
    /\ flpc' = IF flashlighton THEN "switchOff" ELSE "loop"
    /\ flOldest' = <<>>
    /\ UNCHANGED <<now, desktopVersion, activateBeedo, statusmap, oldestAlarm,
                   runwatcher, flashlighton, laboratoryTimeout, desktopTimeout,
                   emailTimeout, beedoGo, processAlive, wpc,
                   desktopDispatched, emailDispatched, lastReportActive,
                   severityUpdated, lifecycle, channelsFail,
                   lastSeverity, senderPending, senderDelay,
                   senderBatch, statusmapmutex>>
    /\ UNCHANGED widgetVars

\* operateFlashLight, second condition: _flashlighton && _statusmap.size() == 0
\* (read without the lock).
FlashLightCheckOff ==
    /\ processAlive
    /\ flpc = "checkOff"
    /\ flpc' = IF flashlighton /\ size(statusmap) = 0
               THEN "switchOff" ELSE "loop"
    /\ flOldest' = <<>>
    /\ UNCHANGED <<now, desktopVersion, activateBeedo, statusmap, oldestAlarm,
                   runwatcher, flashlighton, laboratoryTimeout, desktopTimeout,
                   emailTimeout, beedoGo, processAlive, wpc,
                   desktopDispatched, emailDispatched, lastReportActive,
                   severityUpdated, lifecycle, channelsFail,
                   lastSeverity, senderPending, senderDelay,
                   senderBatch, statusmapmutex>>
    /\ UNCHANGED widgetVars

\* AlarmServerConnector::switchFlashLightOff: returns when the timeout is 0,
\* else clears _flashlighton and calls FlashLight::switchOff.
SwitchFlashLightOff ==
    /\ processAlive
    /\ flpc = "switchOff"
    /\ flashlighton' = IF laboratoryTimeout = 0 THEN flashlighton ELSE FALSE
    /\ processAlive' = IF laboratoryTimeout = 0 THEN processAlive
                       ELSE ~EndsProcess(switchOff(channelsFail))
    /\ flpc' = "loop"
    /\ UNCHANGED <<now, desktopVersion, activateBeedo, statusmap, oldestAlarm,
                   runwatcher, laboratoryTimeout, desktopTimeout,
                   emailTimeout, beedoGo, wpc, flOldest,
                   desktopDispatched, emailDispatched, lastReportActive,
                   severityUpdated, lifecycle, channelsFail,
                   lastSeverity, senderPending, senderDelay,
                   senderBatch, statusmapmutex>>
    /\ UNCHANGED widgetVars

\* AlarmConfiguration::setLaboratoryNotificationTimeout
SetLaboratoryNotificationTimeout(newSetting) ==
    /\ processAlive
    /\ laboratoryTimeout' = newSetting
    /\ UNCHANGED <<now, desktopVersion, activateBeedo, statusmap, oldestAlarm,
                   runwatcher, flashlighton, desktopTimeout,
                   emailTimeout, beedoGo, processAlive, wpc, flpc, flOldest,
                   desktopDispatched, emailDispatched, lastReportActive,
                   severityUpdated, lifecycle, channelsFail,
                   lastSeverity, senderPending, senderDelay,
                   senderBatch, statusmapmutex>>
    /\ UNCHANGED widgetVars

\* AlarmConfiguration::setDesktopNotificationTimeout
SetDesktopNotificationTimeout(newSetting) ==
    /\ processAlive
    /\ desktopTimeout' = newSetting
    /\ UNCHANGED <<now, desktopVersion, activateBeedo, statusmap, oldestAlarm,
                   runwatcher, flashlighton, laboratoryTimeout,
                   emailTimeout, beedoGo, processAlive, wpc, flpc, flOldest,
                   desktopDispatched, emailDispatched, lastReportActive,
                   severityUpdated, lifecycle, channelsFail,
                   lastSeverity, senderPending, senderDelay,
                   senderBatch, statusmapmutex>>
    /\ UNCHANGED widgetVars

\* AlarmConfiguration::setEMailNotificationTimeout
SetEMailNotificationTimeout(newSetting) ==
    /\ processAlive
    /\ emailTimeout' = newSetting
    /\ UNCHANGED <<now, desktopVersion, activateBeedo, statusmap, oldestAlarm,
                   runwatcher, flashlighton, laboratoryTimeout,
                   desktopTimeout, beedoGo, processAlive, wpc, flpc, flOldest,
                   desktopDispatched, emailDispatched, lastReportActive,
                   severityUpdated, lifecycle, channelsFail,
                   lastSeverity, senderPending, senderDelay,
                   senderBatch, statusmapmutex>>
    /\ UNCHANGED widgetVars

\* The clock std::time(nullptr) advances by one second.
ClockTick ==
    /\ processAlive
    /\ now < MaxTime
    /\ now' = now + 1
    /\ UNCHANGED <<desktopVersion, activateBeedo, statusmap, oldestAlarm,
                   runwatcher, flashlighton, laboratoryTimeout, desktopTimeout,
                   emailTimeout, beedoGo, processAlive, wpc, flpc, flOldest,
                   desktopDispatched, emailDispatched, lastReportActive,
                   severityUpdated, lifecycle, channelsFail,
                   lastSeverity, senderPending, senderDelay,
                   senderBatch, statusmapmutex>>
    /\ UNCHANGED widgetVars

\* The constructor of AlarmServerConnector initialises the members in the
\* order of their declaration: _desktopVersion, _activateBeedo, _cmsclient,
\* _statusmap, _statusmapmutex, _flashlightmutex, _runwatcher, _flashlighton,
\* _watcher, _flashlightthread, _oldestAlarm; its body follows.
\* First step: the flags and _cmsclient.  CMSClient::CMSClient starts the
\* connection and registers itself as message listener: from here on the
\* bus delivers reports to notifyStatusChange.
ConstructCMSClient ==
    /\ processAlive
    /\ lifecycle = "unconstructed"
    /\ lifecycle' = "cmsclient"
    /\ UNCHANGED <<now, desktopVersion, activateBeedo, statusmap, oldestAlarm,
                   runwatcher, flashlighton, laboratoryTimeout, desktopTimeout,
                   emailTimeout, beedoGo, processAlive, wpc, flpc, flOldest,
                   desktopDispatched, emailDispatched, lastReportActive,
                   severityUpdated, channelsFail,
                   lastSeverity, senderPending, senderDelay,
                   senderBatch, statusmapmutex>>
    /\ UNCHANGED widgetVars

\* Second step: _statusmap (empty), the mutexes (unlocked), _runwatcher
\* (true) and _flashlighton (false).
ConstructStatusMap ==
    /\ processAlive
    /\ lifecycle = "cmsclient"
    /\ lifecycle' = "statusmap"
    /\ statusmap' = [p \in {} |-> 0]
    /\ statusmapmutex' = "free"
    /\ runwatcher' = TRUE
    /\ flashlighton' = FALSE
    /\ UNCHANGED <<now, desktopVersion, activateBeedo, oldestAlarm,
                   laboratoryTimeout, desktopTimeout,
                   emailTimeout, beedoGo, processAlive, wpc, flpc, flOldest,
                   desktopDispatched, emailDispatched, lastReportActive,
                   severityUpdated, channelsFail,
                   lastSeverity, senderPending, senderDelay,
                   senderBatch>>
    /\ UNCHANGED widgetVars

\* Third step: _watcher and _flashlightthread; boost::thread starts the
\* bound member function at construction.
ConstructThreads ==
    /\ processAlive
    /\ lifecycle = "statusmap"
    /\ statusmapmutex = "free"
    /\ lifecycle' = "threads"
    /\ wpc' = "loop"
    /\ flpc' = "entry"
    /\ UNCHANGED <<now, desktopVersion, activateBeedo, statusmap, oldestAlarm,
                   runwatcher, flashlighton, laboratoryTimeout, desktopTimeout,
                   emailTimeout, beedoGo, processAlive, flOldest,
                   desktopDispatched, emailDispatched, lastReportActive,
                   severityUpdated, channelsFail,
                   lastSeverity, senderPending, senderDelay,
                   senderBatch, statusmapmutex>>
    /\ UNCHANGED widgetVars

\* Fourth step: _oldestAlarm ( noAlarmActive ), the last member.  The
\* initialiser is a plain store that takes no lock.
ConstructOldestAlarm ==
    /\ processAlive
    /\ lifecycle = "threads"
    /\ lifecycle' = "body"
    /\ oldestAlarm' = noAlarmActive
    /\ UNCHANGED <<now, desktopVersion, activateBeedo, statusmap,
                   runwatcher, flashlighton, laboratoryTimeout, desktopTimeout,
                   emailTimeout, beedoGo, processAlive, wpc, flpc, flOldest,
                   desktopDispatched, emailDispatched, lastReportActive,
                   severityUpdated, channelsFail,
                   lastSeverity, senderPending, senderDelay,
                   senderBatch, statusmapmutex>>
    /\ UNCHANGED widgetVars

\* The body of the constructor: the test of the two flags.  On success the
\* owner (Daemon, DesktopAlarmWidget) has a running service.  When the body
\* throws, the members are destroyed in reverse order, the two joinable
\* boost::thread objects first: their destructor detaches the thread or
\* calls std::terminate, depending on the version of Boost.Thread the build
\* uses.
Construct ==
    /\ processAlive
    /\ lifecycle = "body"
    /\ statusmapmutex = "free"
    /\ IF Constructor(desktopVersion, activateBeedo).thrown
       THEN /\ lifecycle' = "failed"
            /\ processAlive' \in BOOLEAN
       ELSE /\ lifecycle' = "running"
            /\ UNCHANGED processAlive
    /\ UNCHANGED <<now, desktopVersion, activateBeedo, statusmap, oldestAlarm,
                   runwatcher, flashlighton, laboratoryTimeout, desktopTimeout,
                   emailTimeout, beedoGo, wpc, flpc, flOldest,
                   desktopDispatched, emailDispatched, lastReportActive,
                   severityUpdated, channelsFail,
                   lastSeverity, senderPending, senderDelay,
                   senderBatch, statusmapmutex>>
    /\ UNCHANGED widgetVars

\* CMSClient::onMessage while _statusmap and _statusmapmutex are not
\* constructed yet: notifyStatusChange locks and writes raw storage.  The
\* behaviour is undefined: the process ends, or the write is lost when the
\* members are constructed.
OnMessageUnconstructed(pvname, severity, status) ==
    /\ processAlive
    /\ lifecycle = "cmsclient"
    /\ processAlive' \in BOOLEAN
    /\ lastReportActive' =
          IF severity = SevOK
             \/ (Len(severity) >= 4
                 /\ SubSeq(severity, Len(severity) - 3, Len(severity))
                      = <<"_", "A", "C", "K">>)
          THEN lastReportActive \ {pvname}
          ELSE lastReportActive \cup {pvname}
    /\ lastSeverity' =
          [lastSeverity EXCEPT
             ![pvname] = IF pvname \in lastReportActive'
                         THEN severity ELSE <<>>]
    /\ UNCHANGED <<now, desktopVersion, activateBeedo, statusmap, oldestAlarm,
                   runwatcher, flashlighton, laboratoryTimeout, desktopTimeout,
                   emailTimeout, beedoGo, wpc, flpc, flOldest,
                   desktopDispatched, emailDispatched,
                   severityUpdated, lifecycle, channelsFail,
                   senderPending, senderDelay,
                   senderBatch, statusmapmutex>>
    /\ UNCHANGED widgetVars

\* After a failed construction the detached threads work on destroyed
\* members (_runwatcher, _statusmap, _statusmapmutex): each of their steps
\* may as well end the process.
DanglingAccess ==
    /\ processAlive
    /\ lifecycle = "failed"
    /\ wpc \notin {"unstarted", "returned"} \/ flpc \notin {"unstarted", "returned"}
    /\ processAlive' = FALSE
    /\ UNCHANGED <<now, desktopVersion, activateBeedo, statusmap, oldestAlarm,
                   runwatcher, flashlighton, laboratoryTimeout, desktopTimeout,
                   emailTimeout, beedoGo, wpc, flpc, flOldest,
                   desktopDispatched, emailDispatched, lastReportActive,
                   severityUpdated, lifecycle, channelsFail,
                   lastSeverity, senderPending, senderDelay,
                   senderBatch, statusmapmutex>>
    /\ UNCHANGED widgetVars

\* Variant of the destructor that switches the light off itself.
DestructorEntry_SwitchesOff ==
    /\ processAlive
    /\ lifecycle = "running"
    /\ runwatcher' = FALSE
    /\ flashlighton' = FALSE
    /\ lifecycle' = "joinWatcher"
    /\ UNCHANGED <<now, desktopVersion, activateBeedo, statusmap, oldestAlarm,
                   laboratoryTimeout, desktopTimeout,
                   emailTimeout, beedoGo, processAlive, wpc, flpc, flOldest,
                   desktopDispatched, emailDispatched, lastReportActive,
                   severityUpdated, channelsFail,
                   lastSeverity, senderPending, senderDelay,
                   senderBatch, statusmapmutex>>
    /\ UNCHANGED widgetVars

\* AlarmServerConnector::~AlarmServerConnector, first statement:
\* _runwatcher = false.  Both loops call sleep(1) between two tests of the
\* flag, so each test reads the flag from memory.
DestructorEntry ==
    /\ processAlive
    /\ lifecycle = "running"
    /\ runwatcher' = FALSE
    /\ lifecycle' = "joinWatcher"
    /\ UNCHANGED <<now, desktopVersion, activateBeedo, statusmap, oldestAlarm,
                   flashlighton, laboratoryTimeout, desktopTimeout,
                   emailTimeout, beedoGo, processAlive, wpc, flpc, flOldest,
                   desktopDispatched, emailDispatched, lastReportActive,
                   severityUpdated, channelsFail,
                   lastSeverity, senderPending, senderDelay,
                   senderBatch, statusmapmutex>>
    /\ UNCHANGED widgetVars

\* ~AlarmServerConnector: _watcher.join() returns once startWatcher has
\* returned.
DestructorJoinWatcher ==
    /\ processAlive
    /\ lifecycle = "joinWatcher"
    /\ wpc = "returned"
    /\ lifecycle' = "joinFlashLight"
    /\ UNCHANGED <<now, desktopVersion, activateBeedo, statusmap, oldestAlarm,
                   runwatcher, flashlighton, laboratoryTimeout, desktopTimeout,
                   emailTimeout, beedoGo, processAlive, wpc, flpc, flOldest,
                   desktopDispatched, emailDispatched, lastReportActive,
                   severityUpdated, channelsFail,
                   lastSeverity, senderPending, senderDelay,
                   senderBatch, statusmapmutex>>
    /\ UNCHANGED widgetVars

\* Variant of the second join that does not wait for the thread.
DestructorJoinFlashLight_NoWait ==
    /\ processAlive
    /\ lifecycle = "joinFlashLight"
    /\ lifecycle' = "stopped"
    /\ UNCHANGED <<now, desktopVersion, activateBeedo, statusmap, oldestAlarm,
                   runwatcher, flashlighton, laboratoryTimeout, desktopTimeout,
                   emailTimeout, beedoGo, processAlive, wpc, flpc, flOldest,
                   desktopDispatched, emailDispatched, lastReportActive,
                   severityUpdated, channelsFail,
                   lastSeverity, senderPending, senderDelay,
                   senderBatch, statusmapmutex>>
    /\ UNCHANGED widgetVars

\* ~AlarmServerConnector: _flashlightthread.join() returns once
\* operateFlashLight has returned; the destructor body is then left and the
\* members, _cmsclient among them, are destroyed.
DestructorJoinFlashLight ==
    /\ processAlive
    /\ lifecycle = "joinFlashLight"
    /\ flpc = "returned"
    /\ lifecycle' = "stopped"
    /\ UNCHANGED <<now, desktopVersion, activateBeedo, statusmap, oldestAlarm,
                   runwatcher, flashlighton, laboratoryTimeout, desktopTimeout,
                   emailTimeout, beedoGo, processAlive, wpc, flpc, flOldest,
                   desktopDispatched, emailDispatched, lastReportActive,
                   severityUpdated, channelsFail,
                   lastSeverity, senderPending, senderDelay,
                   senderBatch, statusmapmutex>>
    /\ UNCHANGED widgetVars

\* The running service: reports, the two threads, the configuration setters
\* and the clock.
Next ==
    \/ \E pvname \in PVNames, severity \in Severities, status \in Statuses :
          OnMessage(pvname, severity, status)
    \/ WatcherSleep
    \/ WatcherCheck
    \/ FlashLightEntry
    \/ FlashLightSleep
    \/ FlashLightReadSize
    \/ FlashLightReadOldest
    \/ SwitchFlashLightOn
    \/ FlashLightCheckOff
    \/ SwitchFlashLightOff
    \/ \E newSetting \in Timeouts : SetLaboratoryNotificationTimeout(newSetting)
    \/ \E newSetting \in Timeouts : SetDesktopNotificationTimeout(newSetting)
    \/ \E newSetting \in Timeouts : SetEMailNotificationTimeout(newSetting)
    \/ ClockTick

Spec == Init /\ [][Next]_vars

\* The watcher thread on its own.  The flash light thread writes nothing but
\* _flashlighton and its own position, which no other thread reads, so the
\* map, the flags and the batches evolve in the same way whether or not it
\* runs; here it is never scheduled and the laboratory timeout is left alone.
InitWatcher ==
    /\ Init
    /\ laboratoryTimeout = 0

NextWatcher ==
    \/ \E pvname \in PVNames, severity \in Severities, status \in Statuses :
          OnMessage(pvname, severity, status)
    \/ WatcherSleep
    \/ WatcherCheck
    \/ \E newSetting \in Timeouts : SetDesktopNotificationTimeout(newSetting)
    \/ \E newSetting \in Timeouts : SetEMailNotificationTimeout(newSetting)
    \/ ClockTick

\* startWatcher is an endless loop of sleep(1) and checkStatusMap, whose wait
\* for the lock is bounded by the short critical sections of the other
\* threads: a watcher that can take its next step takes it.
SpecWatcher ==
    InitWatcher /\ [][NextWatcher]_vars
    /\ WF_vars(WatcherSleep) /\ WF_vars(WatcherCheck)

\* The flash light thread of the server version together with the reports and
\* the watcher ticks that change what it reads (map size and _oldestAlarm).
\* The desktop and e-mail channels, which it never reads, are disabled.
InitFlashLight ==
    /\ Init
    /\ ~desktopVersion
    /\ desktopTimeout = 0
    /\ emailTimeout = 0

NextFlashLight ==
    \/ \E pvname \in PVNames, severity \in Severities, status \in Statuses :
          OnMessage(pvname, severity, status)
    \/ WatcherSleep
    \/ WatcherCheck
    \/ FlashLightEntry
    \/ FlashLightSleep
    \/ FlashLightReadSize
    \/ FlashLightReadOldest
    \/ SwitchFlashLightOn
    \/ FlashLightCheckOff
    \/ SwitchFlashLightOff
    \/ \E newSetting \in Timeouts : SetLaboratoryNotificationTimeout(newSetting)
    \/ ClockTick

\* operateFlashLight is an endless loop of sleep(1) and unlocked reads: the
\* thread always takes its next step.  The watcher is fair as above.
SpecFlashLight ==
    InitFlashLight /\ [][NextFlashLight]_vars
    /\ WF_vars(WatcherSleep) /\ WF_vars(WatcherCheck)
    /\ WF_vars(FlashLightEntry) /\ WF_vars(FlashLightSleep)
    /\ WF_vars(FlashLightReadSize) /\ WF_vars(FlashLightReadOldest)
    /\ WF_vars(SwitchFlashLightOn) /\ WF_vars(FlashLightCheckOff)
    /\ WF_vars(SwitchFlashLightOff)

\* The owner's call of the constructor with each of the four combinations of
\* its two flags, with the reports the bus delivers and the watcher ticks
\* from the moment the constructor connects the feed and starts the thread.
\* _oldestAlarm holds whatever its storage held until its initialiser runs.
InitConstruct ==
    /\ now = 0
    /\ desktopVersion \in BOOLEAN
    /\ activateBeedo \in BOOLEAN
    /\ statusmap = [p \in {} |-> 0]
    /\ oldestAlarm \in UninitialisedTimes
    /\ runwatcher = TRUE
    /\ flashlighton = FALSE
    /\ laboratoryTimeout = 0
    /\ desktopTimeout \in Timeouts
    /\ emailTimeout \in Timeouts
    /\ beedoGo = FALSE
    /\ processAlive = TRUE
    /\ wpc = "unstarted"
    /\ flpc = "unstarted"
    /\ flOldest = <<>>
    /\ desktopDispatched = [p \in PVNames |-> 0]
    /\ emailDispatched = [p \in PVNames |-> 0]
    /\ lastReportActive = {}
    /\ severityUpdated = {}
    /\ lifecycle = "unconstructed"
    /\ channelsFail = FALSE
    /\ lastSeverity = [p \in PVNames |-> <<>>]
    /\ senderPending = FALSE
    /\ senderBatch = <<>>
    /\ statusmapmutex = "free"
    /\ ascmutex = "free"
    /\ alarmActive = FALSE
    /\ opc = "unstarted"
    /\ alarmStatusChanged = FALSE
    /\ observedCount = 0
    /\ senderDelay = FALSE

NextConstruct ==
    \/ ConstructCMSClient
    \/ ConstructStatusMap
    \/ ConstructThreads
    \/ ConstructOldestAlarm
    \/ Construct
    \/ \E pvname \in PVNames, severity \in Severities, status \in Statuses :
          OnMessageUnconstructed(pvname, severity, status)
    \/ DanglingAccess
    \/ NextWatcher

SpecConstruct == InitConstruct /\ [][NextConstruct]_vars

\* The service with its owner destroying it at any moment.  The desktop and
\* e-mail channels, which neither loop test nor join depends on, are
\* disabled.  Each thread takes its next step, and a join returns once the
\* thread it waits for has returned.
InitShutdown ==
    /\ Init
    /\ desktopTimeout = 0
    /\ emailTimeout = 0

NextShutdown ==
    \/ NextFlashLight
    \/ DestructorEntry
    \/ DestructorJoinWatcher
    \/ DestructorJoinFlashLight

SpecShutdown ==
    InitShutdown /\ [][NextShutdown]_vars
    /\ WF_vars(WatcherSleep) /\ WF_vars(WatcherCheck)
    /\ WF_vars(FlashLightEntry) /\ WF_vars(FlashLightSleep)
    /\ WF_vars(FlashLightReadSize) /\ WF_vars(FlashLightReadOldest)
    /\ WF_vars(SwitchFlashLightOn) /\ WF_vars(FlashLightCheckOff)
    /\ WF_vars(SwitchFlashLightOff)
    /\ WF_vars(DestructorJoinWatcher) /\ WF_vars(DestructorJoinFlashLight)

\* The service with every collaborator failing on every call: the serial
\* device of the flash light cannot be opened, the SMTP server cannot be
\* reached, the notification daemon reports an error.
InitFailing ==
    /\ InitConnector
    /\ channelsFail = TRUE
    /\ senderDelay = FALSE

SpecFailing == InitFailing /\ [][Next]_vars

\* The service started with all three channels disabled (timeouts 0): every
\* notification it gives stems from a value set at runtime.
InitReconfigure ==
    /\ Init
    /\ laboratoryTimeout = 0
    /\ desktopTimeout = 0
    /\ emailTimeout = 0

SpecReconfigure == InitReconfigure /\ [][Next]_vars

\* The ingestion path with a second severity of an active alarm, so that
\* AlarmStatusEntry::update changes a record, together with the watcher ticks
\* that set the desktop flag and, with an e-mail timeout other than 0, the
\* e-mail flag of the records.  The flash light thread, which writes nothing
\* of the map, is never scheduled.
InitIngestion ==
    /\ Init
    /\ laboratoryTimeout = 0
    /\ emailTimeout \in Timeouts

NextIngestion ==
    \/ \E pvname \in PVNames, severity \in SeveritiesIngestion,
          status \in Statuses :
          OnMessage(pvname, severity, status)
    \/ WatcherSleep
    \/ WatcherCheck
    \/ ClockTick

SpecIngestion == InitIngestion /\ [][NextIngestion]_vars

\* AlarmServerConnector::sendDesktopNotification / sendEMailNotification in
\* their detached threads: the sender thread spawned last returns, those
\* spawned before it have returned.
\* The functions work on their own copy of the batch and write no member of
\* the connector.
SenderReturn ==
    /\ processAlive
    /\ senderPending
    /\ senderPending' = FALSE
    /\ senderBatch' = <<>>
    /\ UNCHANGED <<now, desktopVersion, activateBeedo, statusmap, oldestAlarm,
                   runwatcher, flashlighton, laboratoryTimeout, desktopTimeout,
                   emailTimeout, beedoGo, processAlive, wpc, flpc, flOldest,
                   desktopDispatched, emailDispatched, lastReportActive,
                   severityUpdated, lifecycle, channelsFail,
                   lastSeverity, senderDelay, statusmapmutex>>
    /\ UNCHANGED widgetVars

\* The server version with all three channels enabled and sends that take
\* time: a sender thread spawned by a tick is still running when the tick has
\* ended, and returns at any later moment or never.  The owner destroys the
\* connector at any moment.  The reports raise and clear alarms with the
\* severities "MAJOR" and "OK".
InitDispatch ==
    /\ InitConnector
    /\ channelsFail = FALSE
    /\ senderDelay = TRUE
    /\ ~desktopVersion
    /\ laboratoryTimeout # 0
    /\ desktopTimeout # 0
    /\ emailTimeout # 0

NextDispatch ==
    \/ \E pvname \in PVNames, severity \in {SevOK, SevMAJOR}, status \in Statuses :
          OnMessage(pvname, severity, status)
    \/ WatcherSleep
    \/ WatcherCheck
    \/ SenderReturn
    \/ FlashLightEntry
    \/ FlashLightSleep
    \/ FlashLightReadSize
    \/ FlashLightReadOldest
    \/ SwitchFlashLightOn
    \/ FlashLightCheckOff
    \/ SwitchFlashLightOff
    \/ ClockTick
    \/ DestructorEntry
    \/ DestructorJoinWatcher
    \/ DestructorJoinFlashLight

SpecDispatch == InitDispatch /\ [][NextDispatch]_vars

\* The server version with all three channels enabled and sends that take
\* time, with the lock guard of checkStatusMap taken in a step of its own:
\* the reports, the flash light thread and the sender threads run while the
\* watcher thread holds _statusmapmutex.
InitLocking == InitDispatch

NextLocking ==
    \/ \E pvname \in PVNames, severity \in Severities, status \in Statuses :
          OnMessage(pvname, severity, status)
    \/ WatcherSleep
    \/ WatcherLock
    \/ WatcherCheck
    \/ SenderReturn
    \/ FlashLightEntry
    \/ FlashLightSleep
    \/ FlashLightReadSize
    \/ FlashLightReadOldest
    \/ SwitchFlashLightOn
    \/ FlashLightCheckOff
    \/ SwitchFlashLightOff
    \/ ClockTick

SpecLocking == InitLocking /\ [][NextLocking]_vars

\* ----------------------------------------------------- DesktopAlarmWidget
\* The pointer DesktopAlarmWidget::_asc is nullptr while no connector exists.
\* toggleNotifications assigns it after new and after delete, under
\* _ascmutex.
ascIsNull == lifecycle \in {"unconstructed", "cmsclient", "statusmap",
                            "threads", "body", "failed", "stopped"}

\* DesktopAlarmWidget::getStatus: reads _asc and _alarmActive without a lock.
getStatus ==
    IF ascIsNull THEN "Disabled"
    ELSE IF alarmActive THEN "ActiveAlarm" ELSE "ActiveOK"

\* DesktopAlarmWidget::toggleNotifications, from the lock guard to the call
\* it makes: with a connector, delete _asc enters ~AlarmServerConnector,
\* which clears _runwatcher; without one, new AlarmServerConnector begins
\* with storage whose _oldestAlarm is uninitialised and a connector that
\* has received no report.  The Beedo singleton is not part of the
\* connector.
ToggleNotifications ==
    /\ processAlive
    /\ ascmutex = "free"
    /\ lifecycle \in {"running", "stopped"}
    /\ ascmutex' = "gui"
    /\ IF lifecycle = "running"
       THEN /\ runwatcher' = FALSE
            /\ lifecycle' = "joinWatcher"
            /\ UNCHANGED <<statusmap, oldestAlarm, flashlighton, wpc, flpc,
                           flOldest, desktopDispatched, emailDispatched,
                           lastReportActive, severityUpdated, lastSeverity>>
       ELSE /\ lifecycle' = "unconstructed"
            /\ statusmap' = [p \in {} |-> 0]
            /\ oldestAlarm' \in UninitialisedTimes
            /\ runwatcher' = TRUE
            /\ flashlighton' = FALSE
            /\ wpc' = "unstarted"
            /\ flpc' = "unstarted"
            /\ flOldest' = <<>>
            /\ desktopDispatched' = [p \in PVNames |-> 0]
            /\ emailDispatched' = [p \in PVNames |-> 0]
            /\ lastReportActive' = {}
            /\ severityUpdated' = {}
            /\ lastSeverity' = [p \in PVNames |-> <<>>]
    /\ UNCHANGED <<now, desktopVersion, activateBeedo,
                   laboratoryTimeout, desktopTimeout,
                   emailTimeout, beedoGo, processAlive,
                   channelsFail, senderPending, senderDelay,
                   senderBatch, statusmapmutex>>
    /\ UNCHANGED <<alarmActive, opc, alarmStatusChanged, observedCount>>

\* toggleNotifications after new or delete has returned: _asc is assigned,
\* notificationSwitchChanged is emitted and the lock guard is released.
ToggleNotificationsReturn ==
    /\ processAlive
    /\ ascmutex = "gui"
    /\ lifecycle \in {"running", "stopped"}
    /\ ascmutex' = "free"
    /\ UNCHANGED <<now, desktopVersion, activateBeedo, statusmap, oldestAlarm,
                   runwatcher, flashlighton, laboratoryTimeout, desktopTimeout,
                   emailTimeout, beedoGo, processAlive, wpc, flpc, flOldest,
                   desktopDispatched, emailDispatched, lastReportActive,
                   severityUpdated, lifecycle, channelsFail,
                   lastSeverity, senderPending, senderDelay,
                   senderBatch, statusmapmutex>>
    /\ UNCHANGED <<alarmActive, opc, alarmStatusChanged, observedCount>>

\* observeAlarmStatus: the lock guard on _ascmutex and the test of _asc.
ObserverLock ==
    /\ processAlive
    /\ opc = "loop"
    /\ ascmutex = "free"
    /\ ascmutex' = "observer"
    /\ opc' = IF ascIsNull THEN "done" ELSE "first"
    /\ UNCHANGED <<now, desktopVersion, activateBeedo, statusmap, oldestAlarm,
                   runwatcher, flashlighton, laboratoryTimeout, desktopTimeout,
                   emailTimeout, beedoGo, processAlive, wpc, flpc, flOldest,
                   desktopDispatched, emailDispatched, lastReportActive,
                   severityUpdated, lifecycle, channelsFail,
                   lastSeverity, senderPending, senderDelay,
                   senderBatch, statusmapmutex>>
    /\ UNCHANGED <<alarmActive, alarmStatusChanged, observedCount>>

\* observeAlarmStatus: if ( _alarmActive && _asc->getNumberOfAlarms() == 0 ).
\* getNumberOfAlarms is called only when _alarmActive is true.
ObserverFirstTest ==
    /\ processAlive
    /\ opc = "first"
    /\ opc' = "second"
    /\ IF alarmActive
       THEN /\ observedCount' = getNumberOfAlarms
            /\ IF getNumberOfAlarms = 0
               THEN /\ alarmActive' = FALSE
                    /\ alarmStatusChanged' = ~alarmStatusChanged
               ELSE UNCHANGED <<alarmActive, alarmStatusChanged>>
       ELSE UNCHANGED <<alarmActive, alarmStatusChanged, observedCount>>
    /\ UNCHANGED <<now, desktopVersion, activateBeedo, statusmap, oldestAlarm,
                   runwatcher, flashlighton, laboratoryTimeout, desktopTimeout,
                   emailTimeout, beedoGo, processAlive, wpc, flpc, flOldest,
                   desktopDispatched, emailDispatched, lastReportActive,
                   severityUpdated, lifecycle, channelsFail,
                   lastSeverity, senderPending, senderDelay,
                   senderBatch, statusmapmutex>>
    /\ UNCHANGED ascmutex

\* Variant of the second test that raises the flag without the signal.
ObserverSecondTest_NoSignal ==
    /\ processAlive
    /\ opc = "second"
    /\ opc' = "done"
    /\ IF ~alarmActive
       THEN /\ observedCount' = getNumberOfAlarms
            /\ alarmActive' = (getNumberOfAlarms # 0)
            /\ UNCHANGED alarmStatusChanged
       ELSE UNCHANGED <<alarmActive, alarmStatusChanged, observedCount>>
    /\ UNCHANGED <<now, desktopVersion, activateBeedo, statusmap, oldestAlarm,
                   runwatcher, flashlighton, laboratoryTimeout, desktopTimeout,
                   emailTimeout, beedoGo, processAlive, wpc, flpc, flOldest,
                   desktopDispatched, emailDispatched, lastReportActive,
                   severityUpdated, lifecycle, channelsFail,
                   lastSeverity, senderPending, senderDelay,
                   senderBatch, statusmapmutex>>
    /\ UNCHANGED ascmutex

\* observeAlarmStatus: if ( !_alarmActive && _asc->getNumberOfAlarms() != 0 ).
ObserverSecondTest ==
    /\ processAlive
    /\ opc = "second"
    /\ opc' = "done"
    /\ IF ~alarmActive
       THEN /\ observedCount' = getNumberOfAlarms
            /\ IF getNumberOfAlarms # 0
               THEN /\ alarmActive' = TRUE
                    /\ alarmStatusChanged' = ~alarmStatusChanged
               ELSE UNCHANGED <<alarmActive, alarmStatusChanged>>
       ELSE UNCHANGED <<alarmActive, alarmStatusChanged, observedCount>>
    /\ UNCHANGED <<now, desktopVersion, activateBeedo, statusmap, oldestAlarm,
                   runwatcher, flashlighton, laboratoryTimeout, desktopTimeout,
                   emailTimeout, beedoGo, processAlive, wpc, flpc, flOldest,
                   desktopDispatched, emailDispatched, lastReportActive,
                   severityUpdated, lifecycle, channelsFail,
                   lastSeverity, senderPending, senderDelay,
                   senderBatch, statusmapmutex>>
    /\ UNCHANGED ascmutex

\* observeAlarmStatus: the end of the block of the lock guard; usleep follows.
ObserverUnlock ==
    /\ processAlive
    /\ opc = "done"
    /\ opc' = "loop"
    /\ ascmutex' = "free"
    /\ UNCHANGED <<now, desktopVersion, activateBeedo, statusmap, oldestAlarm,
                   runwatcher, flashlighton, laboratoryTimeout, desktopTimeout,
                   emailTimeout, beedoGo, processAlive, wpc, flpc, flOldest,
                   desktopDispatched, emailDispatched, lastReportActive,
                   severityUpdated, lifecycle, channelsFail,
                   lastSeverity, senderPending, senderDelay,
                   senderBatch, statusmapmutex>>
    /\ UNCHANGED <<alarmActive, alarmStatusChanged, observedCount>>

\* The desktop widget after its construction: a connector in desktop mode
\* with or without Beedo, the observer thread running, the desktop timeout
\* at the least value the configuration dialog accepts.  The user toggles
\* the notifications at any moment.
InitWidget ==
    /\ now = 0
    /\ desktopVersion = TRUE
    /\ activateBeedo \in BOOLEAN
    /\ statusmap = [p \in {} |-> 0]
    /\ oldestAlarm = noAlarmActive
    /\ runwatcher = TRUE
    /\ flashlighton = FALSE
    /\ laboratoryTimeout = 0
    /\ desktopTimeout = 1
    /\ emailTimeout = 0
    /\ beedoGo = FALSE
    /\ processAlive = TRUE
    /\ wpc = "loop"
    /\ flpc = "entry"
    /\ flOldest = <<>>
    /\ desktopDispatched = [p \in PVNames |-> 0]
    /\ emailDispatched = [p \in PVNames |-> 0]
    /\ lastReportActive = {}
    /\ severityUpdated = {}
    /\ lifecycle = "running"
    /\ channelsFail = FALSE
    /\ lastSeverity = [p \in PVNames |-> <<>>]
    /\ senderPending = FALSE
    /\ senderDelay = FALSE
    /\ senderBatch = <<>>
    /\ statusmapmutex = "free"
    /\ ascmutex = "free"
    /\ alarmActive = FALSE
    /\ opc = "loop"
    /\ alarmStatusChanged = FALSE
    /\ observedCount = 0

NextWidget ==
    \/ \E pvname \in PVNames, severity \in Severities, status \in Statuses :
          OnMessage(pvname, severity, status)
    \/ \E pvname \in PVNames, severity \in Severities, status \in Statuses :
          OnMessageUnconstructed(pvname, severity, status)
    \/ WatcherSleep
    \/ WatcherCheck
    \/ FlashLightEntry
    \/ ClockTick
    \/ ToggleNotifications
    \/ DestructorJoinWatcher
    \/ DestructorJoinFlashLight
    \/ ConstructCMSClient
    \/ ConstructStatusMap
    \/ ConstructThreads
    \/ ConstructOldestAlarm
    \/ Construct
    \/ ToggleNotificationsReturn
    \/ ObserverLock
    \/ ObserverFirstTest
    \/ ObserverSecondTest
    \/ ObserverUnlock

SpecWidget == InitWidget /\ [][NextWidget]_vars

\* ------------------------------------------------------------- properties
\* The records a tick of the watcher thread would produce in this state.
TickResult == checkStatusMap(statusmap, oldestAlarm, beedoGo, now)

\* C1: after any sequence of reports, interleaved with watcher and flash
\* light ticks, getNumberOfAlarms() is the number of PVs whose most recent
\* report carried a severity that is neither "OK" nor ends in "_ACK".
C1_CountIsActiveReports ==
    getNumberOfAlarms = Cardinality(lastReportActive)

\* C2: every record, from its insertion to its removal, is in at most one
\* desktop batch and in at most one e-mail batch (a record inserted again
\* after its removal counts anew).
C2_AtMostOncePerChannel ==
    \A p \in PVNames : desktopDispatched[p] <= 1 /\ emailDispatched[p] <= 1

\* Both records have been dispatched on both channels, one of them inserted
\* after the alarm that set oldestAlarm.
C2_Witness ==
    /\ processAlive
    /\ DOMAIN statusmap = PVNames
    /\ \A p \in PVNames : desktopDispatched[p] = 1 /\ emailDispatched[p] = 1
    /\ \E p \in PVNames : statusmap[p].triggertime > oldestAlarm

C5_EMailBatchAllUnsent ==
    LET setLevel == size(statusmap) # 0 /\ now - oldestAlarm >= emailTimeout
    IN  /\ (~desktopVersion /\ emailTimeout # 0 /\ setLevel)
             => BatchNames(TickResult.emailBatch)
                  = {p \in DOMAIN statusmap :
                       ~statusmap[p].emailNotificationSent}
        /\ ~setLevel => TickResult.emailBatch = <<>>

\* A record younger than the e-mail timeout has been put into an e-mail batch.
C5_Witness ==
    /\ processAlive
    /\ ~desktopVersion
    /\ emailTimeout # 0
    /\ \E p \in DOMAIN statusmap :
          /\ emailDispatched[p] = 1
          /\ statusmap[p].emailNotificationSent
          /\ now - statusmap[p].triggertime < emailTimeout

\* C6: while the desktop timeout is 0 no step puts a record into a desktop
\* batch or sets a desktopNotificationSent flag, and while the e-mail timeout
\* is 0 no step puts a record into an e-mail batch or sets an
\* emailNotificationSent flag.
C6_ZeroTimeoutDisables ==
    [][ /\ desktopTimeout = 0 =>
           \A p \in PVNames :
              /\ desktopDispatched'[p] <= desktopDispatched[p]
              /\ (p \in DOMAIN statusmap'
                  /\ statusmap'[p].desktopNotificationSent)
                    => (p \in DOMAIN statusmap
                        /\ statusmap[p].desktopNotificationSent)
        /\ emailTimeout = 0 =>
           \A p \in PVNames :
              /\ emailDispatched'[p] <= emailDispatched[p]
              /\ (p \in DOMAIN statusmap'
                  /\ statusmap'[p].emailNotificationSent)
                    => (p \in DOMAIN statusmap
                        /\ statusmap[p].emailNotificationSent)
      ]_vars

\* Both timeouts are 0, an alarm has been active up to the last clock value
\* and the watcher has ticked on it (Beedo has been started by that tick)
\* without any flag being set.
C6_Witness ==
    /\ processAlive
    /\ desktopTimeout = 0
    /\ emailTimeout = 0
    /\ beedoGo
    /\ now = MaxTime
    /\ \E p \in DOMAIN statusmap :
          /\ statusmap[p].triggertime = 0
          /\ ~statusmap[p].desktopNotificationSent
          /\ ~statusmap[p].emailNotificationSent
          /\ desktopDispatched[p] = 0
          /\ emailDispatched[p] = 0

\* C7: while the laboratory timeout is 0 the flash light thread never calls
\* FlashLight::switchOn and never sets _flashlighton (the call and the
\* assignment are made together, by switchFlashLightOn).
C7_ZeroLabTimeoutNeverOn ==
    [][laboratoryTimeout = 0 => (flashlighton' => flashlighton)]_vars

\* With a laboratory timeout of 0 and an alarm active for MaxTimeout seconds
\* or more the thread has called switchFlashLightOn, which has returned
\* without switching the light on.
C7_Witness ==
    /\ processAlive
    /\ laboratoryTimeout = 0
    /\ flpc = "checkOff"
    /\ flOldest # <<>>
    /\ ~flashlighton
    /\ size(statusmap) # 0
    /\ now - oldestAlarm >= MaxTimeout

\* C8: the light is switched on only at a tick of the flash light thread at
\* which the timeout is not 0 and the size and the oldest time the thread
\* used belong to one state of the map.  The thread has read a size other
\* than 0; _oldestAlarm differs from noAlarmActive in every state whose map
\* is not empty, and every other value of _oldestAlarm was stored by an
\* insertion, so the two reads fit one state exactly if the oldest time read
\* is not noAlarmActive.
C8_LightOnFromConsistentReads ==
    [][(~flashlighton /\ flashlighton')
         => /\ laboratoryTimeout # 0
            /\ flOldest # <<>>
            /\ flOldest[1] # noAlarmActive]_vars

\* C9: the step of the flash light thread that follows its finding the light
\* on and the map empty (the call of switchFlashLightOff) records the light
\* as off, whatever the laboratory timeout is at that tick.
C9_OffWhenOnAndEmpty ==
    [][(flpc = "switchOff" /\ flpc' # "switchOff") => ~flashlighton']_vars

\* A live record that has reached the desktop timeout and has not been in a
\* desktop batch; the same for the e-mail channel of the server version.
DesktopDue(p) ==
    /\ processAlive
    /\ p \in DOMAIN statusmap
    /\ desktopTimeout # 0
    /\ now - statusmap[p].triggertime >= desktopTimeout
    /\ desktopDispatched[p] = 0

EMailDue(p) ==
    /\ processAlive
    /\ ~desktopVersion
    /\ p \in DOMAIN statusmap
    /\ emailTimeout # 0
    /\ now - statusmap[p].triggertime >= emailTimeout
    /\ emailDispatched[p] = 0

LaboratoryDue ==
    /\ processAlive
    /\ ~desktopVersion
    /\ size(statusmap) # 0
    /\ laboratoryTimeout # 0
    /\ now - oldestAlarm >= laboratoryTimeout

\* C10: in server mode, with the flash light thread running, if from some
\* point on the map stays non-empty with the oldest alarm past the laboratory
\* timeout (not 0), then the light is switched on and from some point on
\* stays on.
C10_LightOnWhileAlarm ==
    <>[]LaboratoryDue => <>[]flashlighton

\* The light is on while the map is not empty and the oldest alarm is past
\* the laboratory timeout.
C10_Witness ==
    /\ LaboratoryDue
    /\ flashlighton
    /\ flpc = "loop"

\* A severity that denotes a cleared or acknowledged state: "OK", or a string
\* whose last 4 characters are "_ACK".
IsClearedSeverity(s) ==
    \/ s = SevOK
    \/ /\ Len(s) >= 4
       /\ SubSeq(s, Len(s) - 3, Len(s)) = <<"_", "A", "C", "K">>

\* C11: checkSeverityString returns, without an exception, true exactly for
\* "OK" and for the strings whose last 4 characters are "_ACK", for every
\* input string the running service may be handed, the strings shorter than
\* 4 characters included.
C11_ClearedExactly ==
    lifecycle = "running" =>
       \A s \in SeverityInputs :
          checkSeverityString(s) = [thrown |-> FALSE,
                                    value |-> IsClearedSeverity(s)]

\* C12: no report ends the service: after every report, whatever its PV name
\* and severity string, the process is running.
C12_ReportNeverFails ==
    processAlive

\* C13: in every reachable state no record of the map has a cleared
\* severity ("OK" or ending in "_ACK"), whether the record's severity stems
\* from its insertion or from an update.
C13_NoClearedRecord ==
    \A p \in DOMAIN statusmap : ~IsClearedSeverity(statusmap[p].severity)

\* Both PVs have a record whose severity was replaced by update, one of them
\* after its desktop notification.
C13_Witness ==
    /\ processAlive
    /\ severityUpdated = PVNames
    /\ DOMAIN statusmap = PVNames
    /\ \E p \in PVNames : /\ statusmap[p].severity = SevMINOR
                          /\ statusmap[p].desktopNotificationSent
    /\ \E p \in PVNames : statusmap[p].severity = SevMAJOR

\* C14: a report with a cleared severity on a PV that has no record leaves
\* the map (its size and every record with its severity, status, trigger
\* time and both flags) and _oldestAlarm as they are.
C14_ClearOfAbsentIsNoOp ==
    \A p \in PVNames \ DOMAIN statusmap :
       \A s \in Severities, st \in Statuses :
          IsClearedSeverity(s) =>
             LET res == notifyStatusChange(statusmap, oldestAlarm,
                                           AlarmStatusEntry(p, s, st, now))
             IN  /\ ~res.thrown
                 /\ res.statusmap = statusmap
                 /\ res.oldestAlarm = oldestAlarm

\* One PV has no record while the other has a record with both flags set;
\* a cleared report on the first PV has nothing to remove.
C14_Witness ==
    /\ processAlive
    /\ Cardinality(DOMAIN statusmap) = 1
    /\ oldestAlarm # noAlarmActive
    /\ \E q \in DOMAIN statusmap :
          /\ statusmap[q].desktopNotificationSent
          /\ statusmap[q].emailNotificationSent

\* C15 as stated: the constructor fails exactly when its second flag is true
\* while desktopVersion is true, and returns for the other three
\* combinations.
C15_FailsIffDesktopAndSecondFlag ==
    lifecycle \notin ConstructionStages =>
       (lifecycle = "failed" <=> (desktopVersion /\ activateBeedo))

\* C15, amended: the constructor fails (std::logic_error) exactly when its
\* second flag, activateBeedo, is true while desktopVersion is false, and
\* returns with a running service for the other three combinations.
C15_FailsIffBeedoWithoutDesktop ==
    lifecycle \notin ConstructionStages =>
       (lifecycle = "failed" <=> (~desktopVersion /\ activateBeedo))

\* The constructor has been called with activateBeedo and without
\* desktopVersion and has thrown.
C15_Witness ==
    /\ lifecycle = "failed"
    /\ ~desktopVersion
    /\ activateBeedo

\* C16: once the destructor has cleared _runwatcher, startWatcher and
\* operateFlashLight leave their loops and the destructor returns (as long
\* as the process is not ended by a report in the meantime); it returns only
\* when both functions have returned, and after its return no step of
\* either thread takes place: thread positions, map, _oldestAlarm, light
\* and Beedo flag stay as they are.
C16_ShutdownTerminates ==
    /\ (lifecycle = "joinWatcher") ~> (lifecycle = "stopped" \/ ~processAlive)
    /\ [](lifecycle = "stopped" => (wpc = "returned" /\ flpc = "returned"))
    /\ [][lifecycle = "stopped" =>
            UNCHANGED <<wpc, flpc, statusmap, oldestAlarm, flashlighton,
                        beedoGo, lifecycle>>]_vars

\* The destructor of a server version has returned while an alarm was
\* active and the light was on: both loops were running when it began.
C16_Witness ==
    /\ processAlive
    /\ lifecycle = "stopped"
    /\ ~desktopVersion
    /\ flashlighton
    /\ size(statusmap) # 0

C18_FailuresDoNotStopService ==
    [][ /\ (flpc \in {"switchOn", "switchOff"} /\ flpc' # flpc)
             => (processAlive' /\ flpc' \in {"checkOff", "loop"})
        /\ (wpc = "slept" /\ wpc' # wpc)
             => (processAlive' /\ wpc' = "loop")
      ]_vars

\* With every collaborator failing the light has been switched on and a
\* record has been put into a desktop and an e-mail batch; a record reported
\* after that e-mail batch is in the map.
C18_Witness ==
    /\ processAlive
    /\ channelsFail
    /\ flashlighton
    /\ \E p, q \in DOMAIN statusmap :
          /\ desktopDispatched[p] = 1
          /\ emailDispatched[p] = 1
          /\ emailDispatched[q] = 0
          /\ statusmap[q].triggertime > statusmap[p].triggertime

\* C19: every tick works with the timeouts the configuration has at that
\* tick: the desktop and e-mail batches of a watcher tick are those the
\* current desktop and e-mail timeouts give (0 disabling the channel), and
\* the flash light thread compares with the current laboratory timeout and
\* tests the current value for 0 when it switches.
C19_TicksUseCurrentTimeouts ==
    /\ [] /\ BatchNames(TickResult.desktopBatch)
               = {p \in DOMAIN statusmap :
                    /\ desktopTimeout # 0
                    /\ statusmap[p].triggertime + desktopTimeout <= now
                    /\ ~statusmap[p].desktopNotificationSent}
          /\ BatchNames(TickResult.emailBatch)
               = IF /\ ~desktopVersion
                    /\ emailTimeout # 0
                    /\ oldestAlarm + emailTimeout <= now
                 THEN {p \in DOMAIN statusmap :
                         ~statusmap[p].emailNotificationSent}
                 ELSE {}
    /\ [][ /\ (flpc = "readOldest" /\ flpc' # flpc)
                 => (flpc' = "switchOn"
                       <=> oldestAlarm + laboratoryTimeout <= now)
           /\ (flpc = "switchOn" /\ flpc' # flpc)
                 => (flashlighton' <=> (flashlighton \/ laboratoryTimeout # 0))
           /\ (flpc = "switchOff" /\ flpc' # flpc)
                 => (flashlighton' <=> (flashlighton /\ laboratoryTimeout = 0))
         ]_vars

\* A service started with all timeouts 0 has switched the light on and has
\* put a record into a desktop and an e-mail batch.
C19_Witness ==
    /\ processAlive
    /\ flashlighton
    /\ \E p \in DOMAIN statusmap :
          /\ desktopDispatched[p] = 1
          /\ emailDispatched[p] = 1

\* C20: in a desktop version no tick produces an e-mail batch, no record has
\* its emailNotificationSent set, and the flash light thread returns before
\* its loop, so the light is never switched on or off, whatever the
\* timeouts, reports and ticks.
C20_DesktopVersionNoEMailNoLight ==
    desktopVersion =>
       /\ TickResult.emailBatch = <<>>
       /\ \A p \in PVNames : emailDispatched[p] = 0
       /\ \A p \in DOMAIN statusmap : ~statusmap[p].emailNotificationSent
       /\ ~flashlighton
       /\ flpc \in {"entry", "returned"}

\* A desktop version with e-mail and laboratory timeouts other than 0 has an
\* alarm past both timeouts that the watcher has put into a desktop batch.
C20_Witness ==
    /\ processAlive
    /\ desktopVersion
    /\ emailTimeout # 0
    /\ laboratoryTimeout # 0
    /\ flpc = "returned"
    /\ \E p \in DOMAIN statusmap :
          /\ desktopDispatched[p] = 1
          /\ now - statusmap[p].triggertime >= MaxTimeout

\* C21: every record carries the severity of the most recent non-cleared
\* report of its PV, a report of the second of the insertion included.
C21_SeverityIsLatestReport ==
    processAlive =>
       \A p \in DOMAIN statusmap : statusmap[p].severity = lastSeverity[p]

\* The map after a report of PV p with severity s in this state.
ReportResult(p, s) ==
    notifyStatusChange(statusmap, oldestAlarm,
                       AlarmStatusEntry(p, s, "HIHI_ALARM", now)).statusmap

\* C22: a report that updates an existing record leaves the record's PV name,
\* trigger time and both notification flags and every other record as they
\* are, and no step changes the trigger time or the PV name of a record that
\* stays in the map.
C22_UpdateKeepsRest ==
    /\ [](\A p \in DOMAIN statusmap :
            \A s \in {x \in SeveritiesIngestion : ~IsClearedSeverity(x)} :
               LET after == ReportResult(p, s)
               IN  /\ DOMAIN after = DOMAIN statusmap
                   /\ after[p].pvname = statusmap[p].pvname
                   /\ after[p].triggertime = statusmap[p].triggertime
                   /\ after[p].desktopNotificationSent
                         = statusmap[p].desktopNotificationSent
                   /\ after[p].emailNotificationSent
                         = statusmap[p].emailNotificationSent
                   /\ \A q \in DOMAIN statusmap \ {p} :
                         after[q] = statusmap[q])
    /\ [][\A p \in DOMAIN statusmap \cap DOMAIN statusmap' :
            /\ statusmap'[p].pvname = statusmap[p].pvname
            /\ statusmap'[p].triggertime = statusmap[p].triggertime]_vars

\* A record whose severity a later report has changed carries both flags and
\* an earlier trigger time, next to a second record.
C22_Witness ==
    /\ processAlive
    /\ \E p \in severityUpdated :
          /\ p \in DOMAIN statusmap
          /\ statusmap[p].severity = SevMINOR
          /\ statusmap[p].desktopNotificationSent
          /\ statusmap[p].emailNotificationSent
          /\ statusmap[p].triggertime < now
          /\ DOMAIN statusmap # {p}

\* C23: no step sets desktopNotificationSent or emailNotificationSent of a
\* record that stays in the map back to false, and a record enters the map
\* with both flags false.
C23_FlagsMonotone ==
    [][/\ \A p \in DOMAIN statusmap \cap DOMAIN statusmap' :
             /\ statusmap[p].desktopNotificationSent
                   => statusmap'[p].desktopNotificationSent
             /\ statusmap[p].emailNotificationSent
                   => statusmap'[p].emailNotificationSent
       /\ \A p \in DOMAIN statusmap' \ DOMAIN statusmap :
             /\ ~statusmap'[p].desktopNotificationSent
             /\ ~statusmap'[p].emailNotificationSent]_vars

\* A record with both flags set whose severity a report has changed, and a
\* second record, inserted later, that has none of the flags yet.
C23_Witness ==
    /\ processAlive
    /\ \E p, q \in DOMAIN statusmap :
          /\ p \in severityUpdated
          /\ statusmap[p].desktopNotificationSent
          /\ statusmap[p].emailNotificationSent
          /\ desktopDispatched[p] = 1
          /\ emailDispatched[p] = 1
          /\ statusmap[q].triggertime > statusmap[p].triggertime
          /\ ~statusmap[q].desktopNotificationSent
          /\ ~statusmap[q].emailNotificationSent

\* C24: after every report that inserts a record into an empty map,
\* _oldestAlarm is the trigger time of that record, wherever the watcher
\* ticks fall between the removal that emptied the map and the insertion.
C24_InsertIntoEmptySetsOldest ==
    [][(size(statusmap) = 0 /\ size(statusmap') = 1)
          => \A p \in DOMAIN statusmap' :
                oldestAlarm' = statusmap'[p].triggertime]_vars

C28_SwitchCallsAlternate ==
    [][/\ (flpc = "switchOn" /\ flpc' # flpc /\ laboratoryTimeout # 0)
             => (~flashlighton /\ flashlighton')
       /\ (flpc = "switchOff" /\ flpc' # flpc /\ laboratoryTimeout # 0)
             => (flashlighton /\ ~flashlighton')
       /\ flashlighton' # flashlighton
             => /\ flpc \in {"switchOn", "switchOff"}
                /\ flpc' # flpc
                /\ laboratoryTimeout # 0]_vars

\* The light has been switched on, the map has become empty, and the flash
\* light thread is about to call FlashLight::switchOff.
C28_Witness ==
    /\ processAlive
    /\ flpc = "switchOff"
    /\ flashlighton
    /\ laboratoryTimeout # 0

\* C29: a step of a report, of the watcher thread, of a sender thread or of
\* the destructor neither changes _flashlighton nor moves the flash light
\* thread; _flashlighton changes only in the step of the flash light thread
\* that calls FlashLight::switchOn or FlashLight::switchOff, one call at a
\* time.
C29_OnlyFlashLightThreadSwitches ==
    [][/\ (\/ statusmap' # statusmap
           \/ lastSeverity' # lastSeverity
           \/ wpc' # wpc
           \/ senderPending' # senderPending
           \/ lifecycle' # lifecycle)
             => (flashlighton' = flashlighton /\ flpc' = flpc)
       /\ flashlighton' # flashlighton
             => (flpc \in {"switchOn", "switchOff"} /\ flpc' # flpc)]_vars

\* The destructor has returned and has left the light on, after reports, a
\* tick with a desktop batch and a sender thread that is still running.
C29_Witness ==
    /\ processAlive
    /\ lifecycle = "stopped"
    /\ flashlighton
    /\ senderPending
    /\ \E p \in PVNames : desktopDispatched[p] = 1

\* C30: the watcher thread never waits for a sender thread.  A tick ends in
\* the step that spawns the senders; while a sender thread runs, whether or
\* not it ever returns, the watcher thread can start its next sleep and take
\* the lock of its next tick, a report can be applied, and the next step of
\* the destructor can be taken, as if no sender were running; no step of
\* the destructor ends a sender thread.
C30_WatcherNeverWaitsForSender ==
    /\ [][(wpc = "slept" /\ wpc' # wpc) => wpc' = "loop"]_vars
    /\ [][lifecycle' # lifecycle => senderPending' = senderPending]_vars
    /\ []((senderPending /\ processAlive) =>
             /\ wpc = "loop" => ENABLED WatcherSleep
             /\ wpc = "slept" => ENABLED WatcherLock
             /\ lifecycle \in {"running", "joinWatcher", "joinFlashLight"}
                   => ENABLED OnMessage("pv1", SevOK, "HIHI_ALARM")
             /\ lifecycle = "running" => ENABLED DestructorEntry
             /\ (lifecycle = "joinWatcher" /\ wpc = "returned")
                   => ENABLED DestructorJoinWatcher
             /\ (lifecycle = "joinFlashLight" /\ flpc = "returned")
                   => ENABLED DestructorJoinFlashLight)

\* The destructor has returned while a sender thread spawned by a tick is
\* still running; an alarm has been in a desktop and in an e-mail batch.
C30_Witness ==
    /\ processAlive
    /\ lifecycle = "stopped"
    /\ senderPending
    /\ \E p \in PVNames : desktopDispatched[p] = 1 /\ emailDispatched[p] = 1

\* C31: _statusmapmutex is held across steps only by the watcher thread
\* inside checkStatusMap, never by a sender thread or by the flash light
\* thread.  The step that selects and marks the alarms of a batch is the
\* critical section of the tick, and when it ends the mutex is free while
\* the send is still in progress; the return of a send and the step that
\* calls FlashLight::switchOn or switchOff neither take nor release the
\* mutex, and are possible while the watcher thread holds it.
C31_NoCollaboratorCallUnderLock ==
    /\ [](statusmapmutex = "watcher" <=> wpc = "locked")
    /\ []((processAlive /\ senderPending) => ENABLED SenderReturn)
    /\ []((processAlive /\ flpc = "switchOn") => ENABLED SwitchFlashLightOn)
    /\ []((processAlive /\ flpc = "switchOff") => ENABLED SwitchFlashLightOff)
    /\ [][/\ (\E p \in PVNames :
                 \/ desktopDispatched'[p] > desktopDispatched[p]
                 \/ emailDispatched'[p] > emailDispatched[p])
                => /\ wpc \in {"slept", "locked"}
                   /\ wpc' = "loop"
                   /\ senderPending'
                   /\ statusmapmutex' = "free"
          /\ (senderPending /\ ~senderPending')
                => statusmapmutex' = statusmapmutex
          /\ (flpc \in {"switchOn", "switchOff"} /\ flpc' # flpc)
                => statusmapmutex' = statusmapmutex]_vars

\* A sender thread is running and the light is on while the watcher thread
\* holds the mutex for its next tick.
C31_Witness ==
    /\ processAlive
    /\ senderPending
    /\ flashlighton
    /\ wpc = "locked"
    /\ statusmapmutex = "watcher"

\* C32: the batch a sender thread holds is a copy of the records as they are
\* at the end of the tick that selected them, its PV names are the ones the
\* tick has selected, and no report changes it: it stays as it is until the
\* next tick spawns a sender or the sender returns, also when the record of
\* one of its alarms is erased in the meantime.
C32_BatchIsCopy ==
    [][/\ senderBatch' # senderBatch
             => \/ wpc \in {"slept", "locked"} /\ wpc' = "loop"
                \/ senderPending /\ ~senderPending'
       /\ (senderBatch' # senderBatch /\ senderPending')
             => /\ \A i \in DOMAIN senderBatch' :
                      /\ senderBatch'[i].pvname \in DOMAIN statusmap'
                      /\ senderBatch'[i] = statusmap'[senderBatch'[i].pvname]
                /\ BatchNames(senderBatch')
                      \in {{p \in PVNames :
                              emailDispatched'[p] > emailDispatched[p]},
                           {p \in PVNames :
                              desktopDispatched'[p] > desktopDispatched[p]}}
      ]_vars

\* A sender thread is running with a batch that holds an alarm whose record
\* a report has erased since the tick.
C32_Witness ==
    /\ processAlive
    /\ senderPending
    /\ \E i \in DOMAIN senderBatch :
          senderBatch[i].pvname \notin DOMAIN statusmap

\* C33: _runwatcher, once cleared, stays cleared, and from then on each loop
\* only finishes the iteration it is in: the thread that is past its sleep
\* runs the rest of its tick and comes back to the loop test, the loop test
\* leads to the return, and no thread enters a sleep again.  So each loop
\* runs at most one tick after the flag is cleared.
C33_OneTickAfterCancel ==
    [][~runwatcher =>
          /\ ~runwatcher'
          /\ wpc' # wpc
                => \/ wpc = "slept" /\ wpc' = "loop"
                   \/ wpc = "loop" /\ wpc' = "returned"
          /\ flpc' # flpc
                => \/ flpc = "entry" /\ flpc' \in {"loop", "returned"}
                   \/ flpc = "loop" /\ flpc' = "returned"
                   \/ flpc = "slept" /\ flpc' \in {"readOldest", "checkOff"}
                   \/ flpc = "readOldest" /\ flpc' \in {"switchOn", "checkOff"}
                   \/ flpc = "switchOn" /\ flpc' = "checkOff"
                   \/ flpc = "checkOff" /\ flpc' \in {"switchOff", "loop"}
                   \/ flpc = "switchOff" /\ flpc' = "loop"]_vars

\* The destructor has cleared the flag while both threads were in their
\* sleep, and waits for the watcher: the watcher thread is about to run its
\* last tick, the flash light thread is in the middle of its last one.
C33_Witness ==
    /\ processAlive
    /\ ~runwatcher
    /\ lifecycle = "joinWatcher"
    /\ wpc = "slept"
    /\ flpc = "switchOn"

\* C34 as stated: a construction that fails with the configuration error
\* leaves nothing running.  The test of the two flags precedes the
\* connection of the bus feed and the start of the two loops: with the flags
\* the constructor rejects, no report has been delivered, no thread has been
\* started and no record is held, at any moment.
C34_FailedConstructionLeavesNothingRunning ==
    (~desktopVersion /\ activateBeedo) =>
       /\ wpc = "unstarted"
       /\ flpc = "unstarted"
       /\ lastReportActive = {}
       /\ size(statusmap) = 0

\* C35 as stated: notifyStatusChange is applied only while _statusmap,
\* _statusmapmutex and _oldestAlarm exist.  Until the initialiser of
\* _oldestAlarm has run no report has been delivered and the map is empty;
\* a report is applied, and a thread evaluates or reads _oldestAlarm, only
\* from then on and before the destructor has returned.
C35_ReportsOnlyOnInitialisedState ==
    /\ [](lifecycle \in {"unconstructed", "cmsclient", "statusmap", "threads"}
             => (lastReportActive = {} /\ size(statusmap) = 0))
    /\ [][/\ (\/ lastReportActive' # lastReportActive
              \/ lastSeverity' # lastSeverity
              \/ (statusmap' # statusmap /\ wpc' = wpc
                  /\ lifecycle' = lifecycle))
                => lifecycle \in {"body", "running",
                                  "joinWatcher", "joinFlashLight"}
          /\ (wpc \in {"slept", "locked"} /\ wpc' = "loop")
                => lifecycle # "threads"
          /\ (flpc = "readOldest" /\ flpc' # flpc)
                => lifecycle # "threads"]_vars

\* C36 as stated: with _activateBeedo, a tick of the watcher thread starts
\* Beedo only if the desktop channel is enabled (desktop timeout other than
\* 0), the map is non-empty and _oldestAlarm plus the desktop timeout has
\* been reached; with a desktop timeout of 0 Beedo is never started.
C36_BeedoOnlyWithDesktopNotification ==
    (activateBeedo /\ ~beedoGo /\ TickResult.beedoGo) =>
       /\ desktopTimeout # 0
       /\ size(statusmap) # 0
       /\ oldestAlarm + desktopTimeout <= now

\* C37 as stated: Beedo is never left playing without an alarm source.  When
\* Beedo plays and the map is empty, the next tick of the watcher thread
\* stops it, and when the connector has been destroyed (delete _asc in
\* toggleNotifications) Beedo does not play.
C37_BeedoStopsWithoutAlarmSource ==
    /\ (activateBeedo /\ beedoGo /\ size(statusmap) = 0
        /\ lifecycle = "running")
          => ~TickResult.beedoGo
    /\ lifecycle = "stopped" => ~beedoGo

\* C38: toggleNotifications alternates between a connector that exists and
\* none (getStatus then returns Disabled): under _ascmutex it either runs
\* the destructor of the existing connector to its end or the constructor
\* of a new one, and the connector is created and destroyed nowhere else.
\* At the end of every iteration of observeAlarmStatus with a connector,
\* _alarmActive tells whether the count the iteration read last was other
\* than 0 (so getStatus returns ActiveAlarm exactly then), the count it
\* reads is the size of the map at that moment, and alarmStatusChanged is
\* emitted exactly in the steps that change the flag.  The observer calls
\* the connector only under _ascmutex and with a complete connector: never
\* while one is being destroyed or constructed.
C38_WidgetStatusTracking ==
    /\ [](lifecycle = "stopped" => getStatus = "Disabled")
    /\ []((opc = "done" /\ ~ascIsNull) =>
             /\ alarmActive = (observedCount # 0)
             /\ getStatus = "ActiveAlarm" <=> observedCount # 0)
    /\ [](opc \in {"first", "second"} =>
             (ascmutex = "observer" /\ lifecycle = "running"))
    /\ [](lifecycle \notin {"running", "stopped"} => ascmutex = "gui")
    /\ [][/\ (ascmutex # "gui" /\ ascmutex' = "gui") =>
                \/ lifecycle = "running" /\ lifecycle' = "joinWatcher"
                \/ lifecycle = "stopped" /\ lifecycle' = "unconstructed"
          /\ (ascmutex = "gui" /\ ascmutex' # "gui") =>
                (lifecycle \in {"running", "stopped"}
                 /\ lifecycle' = lifecycle)
          /\ lifecycle' # lifecycle =>
                /\ ascmutex' = "gui"
                /\ <<lifecycle, lifecycle'>> \in
                      {<<"running", "joinWatcher">>,
                       <<"joinWatcher", "joinFlashLight">>,
                       <<"joinFlashLight", "stopped">>,
                       <<"stopped", "unconstructed">>,
                       <<"unconstructed", "cmsclient">>,
                       <<"cmsclient", "statusmap">>,
                       <<"statusmap", "threads">>,
                       <<"threads", "body">>,
                       <<"body", "running">>}
          /\ observedCount' # observedCount =>
                (observedCount' = size(statusmap)
                 /\ opc \in {"first", "second"})
          /\ alarmStatusChanged' # alarmStatusChanged
                <=> alarmActive' # alarmActive]_vars

\* The observer has ended an iteration that found no alarm at the connector
\* of the second activation: the flag, raised and dropped once each, is
\* down, while Beedo, started for the alarm of the first connector, is
\* still on.
C38_Witness ==
    /\ processAlive
    /\ opc = "done"
    /\ ascmutex = "observer"
    /\ lifecycle = "running"
    /\ ~alarmActive
    /\ ~alarmStatusChanged
    /\ observedCount = 0
    /\ beedoGo
    /\ size(statusmap) = 0
    /\ oldestAlarm = noAlarmActive

====
